---- MODULE Spec2Model ----
(***************************************************************************)
(* Goal tracker (App component, GoalForm, WelcomeScreen): the goal         *)
(* repository handlers, the derived grouped view (activeGoalsByArea) and   *)
(* the progress percentage of a goal card (renderGoalCard), the analytics  *)
(* summary (Dashboard stats) and the notification scan (checkSystems).     *)
(*                                                                         *)
(* Conventions.                                                            *)
(*  - An optional field (deadline?, completedAt?) is a sequence of length  *)
(*    at most one: << >> is undefined, <<v>> is the value v.               *)
(*  - A text (title, description, search query) is a sequence of one-      *)
(*    character strings, so that toLowerCase and includes are computed.    *)
(*  - Time stamps are naturals read from the clock `now` (Date.now()).     *)
(*  - Goal ids stand for crypto.randomUUID(): a counter that never repeats.*)
(***************************************************************************)
EXTENDS Integers, Sequences, FiniteSets, TLC

VARIABLES
    goals,               \* useState<Goal[]>            (part_000:80)
    now,                 \* Date.now()
    nextId,              \* next value of crypto.randomUUID() for a goal
    showWelcome,         \* useState<boolean>           (part_000:79, set by the mount effect)
    userCategories,      \* useState<string[]>          (part_000:77)
    archivedCategories,  \* useState<string[]>          (part_000:78)
    areaOrder,           \* useState<string[]>          (part_000:90)
    searchQuery,         \* useState('')                (part_000:87)
    sortBy,              \* useState<SortOption>        (part_000:88)
    activeSort,          \* useState<{type, value}|null>(part_000:89)
    notifications,       \* useState<AppNotification[]> (part_000:92)
    activeToast,         \* useState<AppNotification|null>(part_000:94)
    scanTimer,           \* setTimeout(checkSystems, 5000) with the goals it closed over
    pendingNudges,       \* runs of checkSystems waiting at await getFriendlyNudge
    toastTimers,         \* setTimeout(() => setActiveToast(null), 7000), oldest first
    userName,            \* useState<string>('')        (part_000:76)
    selectedCategories,  \* WelcomeScreen useState<string[]>([]) (WelcomeScreen.tsx:46)
    pendingLoad,         \* what the mount effect read and set, until the next render
    storedGoals,         \* localStorage 'vision2026_goals'
    storedProfile,       \* localStorage 'vision2026_profile'
    storedAreaOrder,     \* localStorage 'vision2026_area_order'
    formSubTasks,        \* GoalForm useState<Partial<SubTask>[]> (GoalForm.tsx:27)
    isBreakingDown,      \* GoalForm useState(false)    (GoalForm.tsx:25)
    breakdownCall,       \* handleAIGenerateSteps waiting at await getTaskBreakdown
    unhandledRejection,  \* a rejected promise left handleAIGenerateSteps
    nextTaskId           \* next value of crypto.randomUUID() for a step of the form

vars == <<goals, now, nextId, showWelcome, userCategories, archivedCategories,
          areaOrder, searchQuery, sortBy, activeSort,
          notifications, activeToast, scanTimer, pendingNudges, toastTimers,
          userName, selectedCategories, pendingLoad,
          storedGoals, storedProfile, storedAreaOrder,
          formSubTasks, isBreakingDown, breakdownCall, unhandledRejection, nextTaskId>>

repoVars == <<goals, now, nextId, showWelcome, userCategories, archivedCategories, areaOrder>>
viewVars == <<searchQuery, sortBy, activeSort>>
scanVars == <<notifications, activeToast, scanTimer, pendingNudges, toastTimers>>
startVars == <<userName, selectedCategories, pendingLoad>>
storeVars == <<storedGoals, storedProfile, storedAreaOrder>>
formVars == <<formSubTasks, isBreakingDown, breakdownCall, unhandledRejection, nextTaskId>>

----------------------------------------------------------------------------
(* Bounds of the model.                                                    *)

MaxGoalIds == 2       \* goals ever created in one run
MaxGoals == 1         \* goals in the collection at one time
MaxSubTasks == 1      \* sub-tasks of one goal
MaxTarget == 2        \* largest targetProgress typed into the form
MaxNow == 2           \* the clock runs from 1 to MaxNow
MaxArchivedCats == 1  \* length of archivedCategories
MaxViewGoals == 2     \* goals of a collection given to the derived view
MaxProgressSubTasks == 2  \* sub-tasks of the goal given to the progress computation
MaxProgressTime == 6  \* time stamps given to the progress computation
MaxStatsGoals == 3    \* goals of a collection given to the analytics summary
MaxScanGoals == 2     \* goals of a collection given to the notification scan
MaxScanTime == 8      \* the clock of the notification scan runs up to MaxScanTime (days)
MaxFormSteps == 2     \* steps in the list of the goal form
MaxFormIds == 3       \* step ids handed out while one form is open
MaxBreakdown == 1     \* steps of one generated breakdown

----------------------------------------------------------------------------
(* types.ts                                                                *)

GoalLevelValues == {"Easy", "Medium", "Hard"}
GoalPriorityValues == {"Low", "Medium", "High"}
LifeAreaValues == <<"Health & Wellness", "Relationships", "Career & Finances",
                    "Personal Growth", "Fun & Travels", "Others">>
SortOptions == {"Newest", "Priority", "Difficulty", "Deadline", "Reset"}

Undefined == << >>
Some(v) == <<v>>
IsDefined(o) == Len(o) > 0
ValueOf(o) == o[1]

\* null of useState<{type, value} | null>
NoFilter == [type |-> "none", value |-> "none"]

----------------------------------------------------------------------------
(* Generic helpers over sequences.                                         *)

Range(s) == {s[i] : i \in 1..Len(s)}
Max2(a, b) == IF a >= b THEN a ELSE b
Min2(a, b) == IF a <= b THEN a ELSE b

\* Array.prototype.filter with the predicate "x # v"
RECURSIVE Without(_, _)
Without(s, v) ==
    IF s = << >> THEN << >>
    ELSE IF Head(s) = v THEN Without(Tail(s), v)
         ELSE <<Head(s)>> \o Without(Tail(s), v)

\* Array.prototype.includes
Includes(s, v) == \E i \in 1..Len(s) : s[i] = v

NoDuplicates(s) == \A i, j \in 1..Len(s) : i # j => s[i] # s[j]

----------------------------------------------------------------------------
(* Texts: String.prototype.toLowerCase and String.prototype.includes.      *)

LowerChar(c) ==
    CASE c = "A" -> "a"
      [] c = "B" -> "b"
      [] OTHER -> c

ToLowerCase(s) == [i \in 1..Len(s) |-> LowerChar(s[i])]

\* s.includes(q): q occurs in s as a contiguous run of characters
StrIncludes(s, q) ==
    \E k \in 0..(Len(s) - Len(q)) : SubSeq(s, k + 1, k + Len(q)) = q

----------------------------------------------------------------------------
(* Goal repository: the handlers of App, as functions of the collection.   *)

GoalIndex(gs, id) == CHOOSE i \in 1..Len(gs) : gs[i].id = id
HasGoal(gs, id) == \E i \in 1..Len(gs) : gs[i].id = id
GoalById(gs, id) == gs[GoalIndex(gs, id)]

\* variant: an update also stamps createdAt
MergeUpdate_StampsCreatedAt(g, data, t) ==
    [g EXCEPT !.title = data.title,
              !.description = data.description,
              !.level = data.level,
              !.priority = data.priority,
              !.area = data.area,
              !.deadline = data.deadline,
              !.pinned = data.pinned,
              !.order = data.order,
              !.subTasks = data.subTasks,
              !.createdAt = t,
              !.lastInteractionAt = t]

\* { ...g, ...updatedData, lastInteractionAt: Date.now() }
MergeUpdate(g, data, t) ==
    [g EXCEPT !.title = data.title,
              !.description = data.description,
              !.level = data.level,
              !.priority = data.priority,
              !.area = data.area,
              !.deadline = data.deadline,
              !.pinned = data.pinned,
              !.order = data.order,
              !.subTasks = data.subTasks,
              !.lastInteractionAt = t]

\* prev.map(g => g.id === id ? {...} : g)
UpdateGoal(gs, id, data, t) ==
    [i \in 1..Len(gs) |-> IF gs[i].id = id THEN MergeUpdate(gs[i], data, t) ELSE gs[i]]

TogglePinned(gs, id, t) ==
    [i \in 1..Len(gs) |->
        IF gs[i].id = id
        THEN [gs[i] EXCEPT !.pinned = ~gs[i].pinned, !.lastInteractionAt = t]
        ELSE gs[i]]

\* prev.filter(g => g.id !== id)
RECURSIVE DeleteGoal(_, _)
DeleteGoal(gs, id) ==
    IF gs = << >> THEN << >>
    ELSE IF Head(gs).id = id THEN DeleteGoal(Tail(gs), id)
         ELSE <<Head(gs)>> \o DeleteGoal(Tail(gs), id)

ToggleArchive(gs, id, t) ==
    [i \in 1..Len(gs) |->
        IF gs[i].id = id
        THEN [gs[i] EXCEPT !.archived = ~gs[i].archived, !.lastInteractionAt = t]
        ELSE gs[i]]

\* prev.map(g => g.area === area ? { ...g, archived: true } : g)
ArchiveArea(gs, area) ==
    [i \in 1..Len(gs) |->
        IF gs[i].area = area THEN [gs[i] EXCEPT !.archived = TRUE] ELSE gs[i]]

\* variant: reactivation leaves completedAt as it was
CompleteToggled_KeepsCompletedAt(g, t) ==
    LET nextState == ~g.completed
    IN [g EXCEPT !.completed = nextState,
                 !.archived = IF nextState THEN TRUE ELSE FALSE,
                 !.completedAt = IF nextState THEN Some(t) ELSE g.completedAt,
                 !.lastInteractionAt = t]

CompleteToggled(g, t) ==
    LET nextState == ~g.completed
    IN [g EXCEPT !.completed = nextState,
                 !.archived = IF nextState THEN TRUE ELSE FALSE,
                 !.completedAt = IF nextState THEN Some(t) ELSE Undefined,
                 !.lastInteractionAt = t]

ToggleComplete(gs, id, t) ==
    [i \in 1..Len(gs) |-> IF gs[i].id = id THEN CompleteToggled(gs[i], t) ELSE gs[i]]

\* Math.max(1, t.targetProgress || 0)
TargetOf(task) == Max2(1, task.targetProgress)

SubTaskToggled(task) ==
    LET nextCompleted == ~task.completed
    IN [task EXCEPT !.completed = nextCompleted,
                    !.currentProgress = IF nextCompleted THEN TargetOf(task) ELSE 0]

\* variant: a step never takes completed back
SubTaskStepped_NeverUncompletes(task, delta) ==
    LET target == TargetOf(task)
        nextProgress == Max2(0, Min2(target, task.currentProgress + delta))
    IN [task EXCEPT !.currentProgress = nextProgress,
                    !.completed = (task.completed \/ nextProgress >= target)]

SubTaskStepped(task, delta) ==
    LET target == TargetOf(task)
        nextProgress == Max2(0, Min2(target, task.currentProgress + delta))
    IN [task EXCEPT !.currentProgress = nextProgress,
                    !.completed = (nextProgress >= target)]

\* { ...g, lastInteractionAt: Date.now(), subTasks: g.subTasks.map(t => t.id === subTaskId ? ... : t) }
WithSubTaskToggled(g, tid, t) ==
    [g EXCEPT !.subTasks = [k \in 1..Len(g.subTasks) |->
                              IF g.subTasks[k].id = tid THEN SubTaskToggled(g.subTasks[k])
                              ELSE g.subTasks[k]],
              !.lastInteractionAt = t]

WithSubTaskStepped(g, tid, delta, t) ==
    [g EXCEPT !.subTasks = [k \in 1..Len(g.subTasks) |->
                              IF g.subTasks[k].id = tid
                              THEN SubTaskStepped(g.subTasks[k], delta)
                              ELSE g.subTasks[k]],
              !.lastInteractionAt = t]

ToggleSubTask(gs, gid, tid, t) ==
    [i \in 1..Len(gs) |->
        IF gs[i].id = gid THEN WithSubTaskToggled(gs[i], tid, t) ELSE gs[i]]

SubTaskProgress(gs, gid, tid, delta, t) ==
    [i \in 1..Len(gs) |->
        IF gs[i].id = gid THEN WithSubTaskStepped(gs[i], tid, delta, t) ELSE gs[i]]

\* the sub-task mapping of handleAddGoal
AddedSubTask(task) ==
    [task EXCEPT !.completed = IF task.targetProgress > 0
                               THEN task.currentProgress >= task.targetProgress
                               ELSE task.completed,
                 !.deleted = FALSE]

NewGoal(id, data, len, t) ==
    [id |-> id,
     title |-> data.title,
     description |-> data.description,
     level |-> data.level,
     priority |-> data.priority,
     area |-> data.area,
     deadline |-> data.deadline,
     pinned |-> data.pinned,
     order |-> len,
     completed |-> FALSE,
     archived |-> FALSE,
     createdAt |-> t,
     completedAt |-> Undefined,
     lastInteractionAt |-> t,
     subTasks |-> [k \in 1..Len(data.subTasks) |-> AddedSubTask(data.subTasks[k])]]

AddGoal(gs, id, data, t) == <<NewGoal(id, data, Len(gs), t)>> \o gs

----------------------------------------------------------------------------
(* GoalForm: the data a submit hands to onAdd / onUpdate.                  *)

\* handleAddSubTask: a new step of the form (its id is given by AssignIds)
NewFormTask(tgt) ==
    [id |-> 0, text |-> "step", completed |-> FALSE, currentProgress |-> 0,
     targetProgress |-> tgt, deleted |-> FALSE]

\* The lists the form can hold at submit, after subTasks.filter(t => t.text?.trim()):
\* every step of the initial list is removed (handleRemoveSubTask, or its text
\* emptied) or kept in place with the targetProgress typed for it
\* (handleSubTaskChange), and new steps (handleAddSubTask, at the end or after
\* any index) stand at any place; `cap` bounds the length.
RECURSIVE FormSubTaskLists(_, _)
FormSubTaskLists(orig, cap) ==
    IF cap = 0 THEN {<< >>}
    ELSE LET added == {<<NewFormTask(tg)>> \o r :
                          tg \in 0..MaxTarget, r \in FormSubTaskLists(orig, cap - 1)}
             kept == IF orig = << >> THEN {}
                     ELSE {<<[Head(orig) EXCEPT !.targetProgress = tg]>> \o r :
                             tg \in 0..MaxTarget, r \in FormSubTaskLists(Tail(orig), cap - 1)}
             removed == IF orig = << >> THEN {<< >>}
                        ELSE FormSubTaskLists(Tail(orig), cap)
         IN added \cup kept \cup removed

\* crypto.randomUUID() of handleAddSubTask: an id no step of the list has
FreshTaskId(used) == CHOOSE n \in 1..(Cardinality(used) + 1) : n \notin used

RECURSIVE AssignIdsFrom(_, _)
AssignIdsFrom(list, used) ==
    IF list = << >> THEN << >>
    ELSE IF Head(list).id # 0
         THEN <<Head(list)>> \o AssignIdsFrom(Tail(list), used)
         ELSE LET n == FreshTaskId(used)
              IN <<[Head(list) EXCEPT !.id = n]>> \o AssignIdsFrom(Tail(list), used \cup {n})

AssignIds(list) == AssignIdsFrom(list, {list[k].id : k \in 1..Len(list)} \ {0})

FormSubTasks(orig) == {AssignIds(l) : l \in FormSubTaskLists(orig, MaxSubTasks)}

\* the title, description, level, priority and deadline inputs of the form
FormFieldChoices ==
    {[title |-> <<"A", "b">>, description |-> << >>, level |-> "Medium",
      priority |-> "Medium", deadline |-> Undefined],
     [title |-> <<"b">>, description |-> <<"a">>, level |-> "Hard",
      priority |-> "High", deadline |-> Some(MaxNow + 1)]}

\* the options of the area <select>: the categories prop, and the initial value
FormAreas(initialArea) ==
    IF initialArea # "" THEN Range(userCategories) \cup {initialArea}
    ELSE IF userCategories # << >> THEN Range(userCategories) ELSE {""}

\* goalData of handleSubmit
FormData(fields, area, pinned, order, subTasks) ==
    [title |-> fields.title, description |-> fields.description,
     level |-> fields.level, priority |-> fields.priority, area |-> area,
     deadline |-> fields.deadline, pinned |-> pinned, order |-> order,
     subTasks |-> subTasks]

----------------------------------------------------------------------------
(* Derived view: activeGoalsByArea (useMemo over goals, searchQuery,       *)
(* activeSort, sortBy, areaOrder) and archivedGoals.                       *)

\* !searchQuery || title.toLowerCase().includes(q.toLowerCase())
\*              || description?.toLowerCase().includes(q.toLowerCase())
MatchesQuery(g, q) ==
    \/ q = << >>
    \/ StrIncludes(ToLowerCase(g.title), ToLowerCase(q))
    \/ StrIncludes(ToLowerCase(g.description), ToLowerCase(q))

\* variant: the archived goals are not filtered out
InBucket_KeepsArchived(g, area, q) == MatchesQuery(g, q) /\ g.area = area

\* goals.filter(g => !g.archived).forEach(... if (grouped[goal.area]) push)
InBucket(g, area, q) == ~g.archived /\ MatchesQuery(g, q) /\ g.area = area

Bucket(gs, area, q) ==
    LET keep(g) == InBucket(g, area, q) IN SelectSeq(gs, keep)

priorityScore(p) == IF p = "High" THEN 3 ELSE IF p = "Medium" THEN 2 ELSE 1
difficultyScore(d) == IF d = "Hard" THEN 3 ELSE IF d = "Medium" THEN 2 ELSE 1

\* matchA / matchB of the comparator
FilterMatch(g, f) ==
    IF f.type = "difficulty" THEN g.level = f.value
    ELSE IF f.type = "priority" THEN g.priority = f.value
    ELSE IF f.type = "status" THEN g.completed = (f.value = "Completed")
    ELSE IF f.type = "area" THEN g.area = f.value
    ELSE FALSE

\* variant: a missing deadline counts as 0 instead of Infinity
DeadlineCompare_UndefinedFirst(a, b) ==
    (IF IsDefined(a.deadline) THEN ValueOf(a.deadline) ELSE 0)
        - (IF IsDefined(b.deadline) THEN ValueOf(b.deadline) ELSE 0)

\* (a.deadline || Infinity) - (b.deadline || Infinity); Infinity - Infinity is
\* NaN, which Array.prototype.sort takes as +0
DeadlineCompare(a, b) ==
    IF ~IsDefined(a.deadline) /\ ~IsDefined(b.deadline) THEN 0
    ELSE IF ~IsDefined(a.deadline) THEN 1
    ELSE IF ~IsDefined(b.deadline) THEN -1
    ELSE ValueOf(a.deadline) - ValueOf(b.deadline)

\* the fall-through of the comparator (sortBy is none of the four modes)
ManualCompare(a, b) ==
    IF a.completed # b.completed THEN (IF a.completed THEN 1 ELSE -1)
    ELSE IF a.pinned # b.pinned THEN (IF a.pinned THEN -1 ELSE 1)
    ELSE a.order - b.order

\* variant: Newest, Priority and Difficulty compare a with b, not b with a
ModeCompare_Ascending(a, b, mode) ==
    IF mode = "Newest" THEN a.createdAt - b.createdAt
    ELSE IF mode = "Priority" THEN priorityScore(a.priority) - priorityScore(b.priority)
    ELSE IF mode = "Difficulty" THEN difficultyScore(a.level) - difficultyScore(b.level)
    ELSE IF mode = "Deadline" THEN DeadlineCompare(a, b)
    ELSE ManualCompare(a, b)

ModeCompare(a, b, mode) ==
    IF mode = "Newest" THEN b.createdAt - a.createdAt
    ELSE IF mode = "Priority" THEN priorityScore(b.priority) - priorityScore(a.priority)
    ELSE IF mode = "Difficulty" THEN difficultyScore(b.level) - difficultyScore(a.level)
    ELSE IF mode = "Deadline" THEN DeadlineCompare(a, b)
    ELSE ManualCompare(a, b)

\* variant: the filter only breaks the ties of the sort mode
Compare_ModeFirst(a, b, f, mode) ==
    IF ModeCompare(a, b, mode) # 0 THEN ModeCompare(a, b, mode)
    ELSE IF f # NoFilter /\ FilterMatch(a, f) # FilterMatch(b, f)
    THEN (IF FilterMatch(a, f) THEN -1 ELSE 1)
    ELSE 0

\* the comparator given to grouped[area].sort
Compare(a, b, f, mode) ==
    IF f # NoFilter /\ FilterMatch(a, f) # FilterMatch(b, f)
    THEN (IF FilterMatch(a, f) THEN -1 ELSE 1)
    ELSE ModeCompare(a, b, mode)

\* Array.prototype.sort is stable: x goes before the first element that the
\* comparator puts strictly after it
InsertSorted(sorted, x, f, mode) ==
    LET later == {i \in 1..Len(sorted) : Compare(sorted[i], x, f, mode) > 0}
        p == IF later = {} THEN Len(sorted) + 1
             ELSE CHOOSE i \in later : \A j \in later : i <= j
    IN SubSeq(sorted, 1, p - 1) \o <<x>> \o SubSeq(sorted, p, Len(sorted))

RECURSIVE SortGoals(_, _, _)
SortGoals(s, f, mode) ==
    IF s = << >> THEN << >>
    ELSE InsertSorted(SortGoals(SubSeq(s, 1, Len(s) - 1), f, mode), s[Len(s)], f, mode)

GroupedView(gs, q, f, mode, order) ==
    [area \in Range(order) |-> SortGoals(Bucket(gs, area, q), f, mode)]

activeGoalsByArea == GroupedView(goals, searchQuery, activeSort, sortBy, areaOrder)

\* a goal card is on screen: in a bucket of the grouped view, or in the archive
Rendered(g) ==
    \/ g.archived
    \/ (g.area \in Range(areaOrder) /\ MatchesQuery(g, searchQuery))

----------------------------------------------------------------------------
(* Notification scan: the effect over [goals.length, showWelcome] that     *)
(* schedules checkSystems.  The timer keeps the goals of the render that   *)
(* scheduled it; of each goal it keeps the fields checkSystems can tell    *)
(* apart (title and area only go into the message text).                   *)

ScanSnapshot(gs) ==
    [i \in 1..Len(gs) |->
        [id |-> gs[i].id, completed |-> gs[i].completed, archived |-> gs[i].archived,
         deadline |-> gs[i].deadline, lastInteractionAt |-> gs[i].lastInteractionAt]]

\* if (goals.length === 0 || showWelcome) return; ... setTimeout(checkSystems, 5000);
\* the cleanup of the run before has cleared the timer of that run
ScheduledScan(gs, welcome) ==
    IF Len(gs) = 0 \/ welcome THEN Undefined ELSE Some(ScanSnapshot(gs))

----------------------------------------------------------------------------
(* Persistence: the three localStorage items, JSON.stringify / JSON.parse   *)
(* and the effects that write the items after a render.  An item that was   *)
(* never written is Undefined (getItem returns null).                       *)

OptionalFields == {"deadline", "completedAt"}

\* JSON.stringify of a goal: a property whose value is undefined is left out,
\* the others are written with their value
StringifyGoal(g) ==
    [f \in {h \in DOMAIN g : ~(h \in OptionalFields /\ g[h] = Undefined)} |->
        IF f \in OptionalFields THEN ValueOf(g[f]) ELSE g[f]]

StringifyGoals(gs) == [i \in 1..Len(gs) |-> StringifyGoal(gs[i])]

\* the map of the load effect over JSON.parse(savedGoals): a property that is
\* not in the text reads as undefined; i counts from 0; the sub-tasks keep their
\* deleted flag (!!t.deleted of a boolean)
LoadedGoal(s, i, t) ==
    [id |-> s.id, title |-> s.title, description |-> s.description,
     level |-> s.level, priority |-> s.priority, area |-> s.area,
     deadline |-> IF "deadline" \in DOMAIN s THEN Some(s.deadline) ELSE Undefined,
     pinned |-> s.pinned,
     order |-> IF "order" \in DOMAIN s THEN s.order ELSE i,
     completed |-> s.completed,
     archived |-> ("archived" \in DOMAIN s /\ s.archived),
     createdAt |-> s.createdAt,
     completedAt |-> IF "completedAt" \in DOMAIN s THEN Some(s.completedAt) ELSE Undefined,
     lastInteractionAt |-> IF "lastInteractionAt" \in DOMAIN s /\ s.lastInteractionAt # 0
                           THEN s.lastInteractionAt
                           ELSE IF s.createdAt # 0 THEN s.createdAt ELSE t,
     subTasks |-> s.subTasks]

LoadedGoals(blob, t) == [i \in 1..Len(blob) |-> LoadedGoal(blob[i], i - 1, t)]

\* { name: userName, categories: userCategories, archivedCats: archivedCategories }
ProfileBlob(name, categories, archivedCats) ==
    [name |-> name, categories |-> categories, archivedCats |-> archivedCats]

\* useEffect(() => localStorage.setItem('vision2026_goals', ...), [goals]),
\* run after a render with a new goals array
PersistGoals == storedGoals' = Some(StringifyGoals(goals'))

\* the effect over [areaOrder, userCategories, userName, archivedCategories]
PersistProfile ==
    /\ storedAreaOrder' = Some(areaOrder')
    /\ storedProfile' = Some(ProfileBlob(userName', userCategories', archivedCategories'))

\* the render that follows the mount effect has happened
Mounted == ~IsDefined(pendingLoad)

\* a text typed into an input: the text String.prototype.trim gives, and whether
\* blanks stand around it
Typed(blanks, text) == [blanks |-> blanks, text |-> text]
Trim(typed) == typed.text

\* the state beside goals, categories, view and scan of an app that runs with
\* its store in step: no start-up pending, the form closed
InitSession(name) ==
    /\ toastTimers = << >>
    /\ userName = name
    /\ selectedCategories = << >>
    /\ pendingLoad = Undefined
    /\ storedGoals = Some(StringifyGoals(goals))
    /\ storedProfile = Some(ProfileBlob(userName, userCategories, archivedCategories))
    /\ storedAreaOrder = Some(areaOrder)
    /\ formSubTasks = << >>
    /\ isBreakingDown = FALSE
    /\ breakdownCall = Undefined
    /\ unhandledRejection = FALSE
    /\ nextTaskId = 1

----------------------------------------------------------------------------
(* The application: Init and the handlers as actions.                      *)

\* first start with an empty store: the mount effect finds no profile
Init ==
    /\ goals = << >>
    /\ now = 1
    /\ nextId = 1
    /\ showWelcome = TRUE
    /\ userCategories = LifeAreaValues
    /\ archivedCategories = << >>
    /\ areaOrder = << >>
    /\ searchQuery = << >>
    /\ sortBy = "Newest"
    /\ activeSort = NoFilter
    /\ notifications = << >>
    /\ activeToast = Undefined
    /\ scanTimer = ScheduledScan(goals, showWelcome)
    /\ pendingNudges = << >>
    /\ InitSession("")

\* labels the user selects or types (a built-in one and a custom one)
CategoryLabels == {"Health & Wellness", "Side project"}

\* what the user types into the name input and the custom-category input
NameInputs == {Typed(blanks, text) : blanks \in BOOLEAN, text \in {"", "Ann"}}
CustomCategoryInputs ==
    {Typed(blanks, text) : blanks \in BOOLEAN, text \in CategoryLabels \cup {""}}

Tick ==
    /\ now < MaxNow
    /\ now' = now + 1
    /\ UNCHANGED <<startVars, storeVars, formVars, goals, nextId, showWelcome,
                   userCategories, archivedCategories,
                   areaOrder, viewVars, scanVars>>

\* WelcomeScreen: the buttons of the built-in categories and of the selected
\* custom ones
\* variant: a press always selects
ToggledCategory_AlwaysAdds(prev, cat) == Append(prev, cat)

\* prev.includes(cat) ? prev.filter(c => c !== cat) : [...prev, cat]
ToggledCategory(prev, cat) ==
    IF Includes(prev, cat) THEN Without(prev, cat) ELSE Append(prev, cat)

toggleCategory ==
    /\ showWelcome /\ Mounted
    /\ \E cat \in (Range(LifeAreaValues) \cup Range(selectedCategories)) \cap CategoryLabels :
          selectedCategories' = ToggledCategory(selectedCategories, cat)
    /\ UNCHANGED <<repoVars, viewVars, scanVars, storeVars, formVars, userName, pendingLoad>>

addCustomCategory ==
    /\ showWelcome /\ Mounted
    /\ \E customCategory \in CustomCategoryInputs :
          /\ Trim(customCategory) # ""
          /\ ~Includes(selectedCategories, Trim(customCategory))
          /\ selectedCategories' = Append(selectedCategories, Trim(customCategory))
    /\ UNCHANGED <<repoVars, viewVars, scanVars, storeVars, formVars, userName, pendingLoad>>

\* WelcomeScreen.handleFinish and the onComplete it calls: handleWelcomeComplete,
\* the scan effect over showWelcome and the profile effect; the screen is
\* unmounted, its state is gone
handleWelcomeComplete ==
    /\ showWelcome /\ Mounted
    /\ \E name \in NameInputs :
          /\ Trim(name) # "" /\ Len(selectedCategories) > 0
          /\ userName' = Trim(name)
    /\ userCategories' = selectedCategories
    /\ areaOrder' = selectedCategories
    /\ showWelcome' = FALSE
    /\ selectedCategories' = << >>
    /\ scanTimer' = ScheduledScan(goals, FALSE)
    /\ UNCHANGED <<pendingLoad, storedGoals, formVars, goals, now, nextId, archivedCategories,
                   viewVars, notifications, activeToast, pendingNudges, toastTimers>>
    /\ PersistProfile

handleAddNewCategory ==
    /\ ~showWelcome /\ Mounted
    /\ \E name \in CategoryLabels :
          /\ ~Includes(userCategories, name)
          /\ userCategories' = Append(userCategories, name)
          /\ areaOrder' = Append(areaOrder, name)
    /\ UNCHANGED <<startVars, storedGoals, formVars, goals, now, nextId, showWelcome,
                   archivedCategories, viewVars, scanVars>>
    /\ PersistProfile

handleAddGoal ==
    /\ ~showWelcome /\ Mounted
    /\ nextId <= MaxGoalIds
    /\ Len(goals) < MaxGoals
    /\ \E fields \in FormFieldChoices, area \in FormAreas(""), pinned \in BOOLEAN,
          subTasks \in FormSubTasks(<< >>) :
          goals' = AddGoal(goals, nextId, FormData(fields, area, pinned, 0, subTasks), now)
    /\ nextId' = nextId + 1
    /\ scanTimer' = ScheduledScan(goals', showWelcome)
    /\ UNCHANGED <<startVars, storedProfile, storedAreaOrder, formVars, now, showWelcome,
                   userCategories, archivedCategories, areaOrder, viewVars,
                   notifications, activeToast, pendingNudges, toastTimers>>
    /\ PersistGoals

\* the form opens on a card that is not completed (onClick, "add extra step")
handleUpdateGoal ==
    /\ ~showWelcome
    /\ \E i \in 1..Len(goals) :
          /\ Rendered(goals[i])
          /\ ~goals[i].completed
          /\ \E fields \in FormFieldChoices, area \in FormAreas(goals[i].area),
                pinned \in BOOLEAN, subTasks \in FormSubTasks(goals[i].subTasks) :
                goals' = UpdateGoal(goals, goals[i].id,
                                    FormData(fields, area, pinned, goals[i].order, subTasks), now)
    /\ UNCHANGED <<startVars, storedProfile, storedAreaOrder, formVars, now, nextId,
                   showWelcome, userCategories, archivedCategories,
                   areaOrder, viewVars, scanVars>>
    /\ PersistGoals

handleTogglePinned ==
    /\ ~showWelcome
    /\ \E i \in 1..Len(goals) :
          /\ Rendered(goals[i])
          /\ ~goals[i].completed
          /\ goals' = TogglePinned(goals, goals[i].id, now)
    /\ UNCHANGED <<startVars, storedProfile, storedAreaOrder, formVars, now, nextId,
                   showWelcome, userCategories, archivedCategories,
                   areaOrder, viewVars, scanVars>>
    /\ PersistGoals

\* handleDeleteGoal when confirm() returns `confirmed`
handleDeleteGoalAnswered(confirmed) ==
    /\ ~showWelcome
    /\ \E i \in 1..Len(goals) :
          /\ Rendered(goals[i])
          /\ goals' = IF confirmed THEN DeleteGoal(goals, goals[i].id) ELSE goals
          /\ scanTimer' = IF confirmed THEN ScheduledScan(goals', showWelcome) ELSE scanTimer
    /\ UNCHANGED <<startVars, storedProfile, storedAreaOrder, formVars, now, nextId,
                   showWelcome, userCategories, archivedCategories,
                   areaOrder, viewVars,
                   notifications, activeToast, pendingNudges, toastTimers>>
    /\ storedGoals' = IF confirmed THEN Some(StringifyGoals(goals')) ELSE storedGoals

handleDeleteGoal == \E confirmed \in BOOLEAN : handleDeleteGoalAnswered(confirmed)

handleToggleArchive ==
    /\ ~showWelcome
    /\ \E i \in 1..Len(goals) :
          /\ Rendered(goals[i])
          /\ goals' = ToggleArchive(goals, goals[i].id, now)
    /\ UNCHANGED <<startVars, storedProfile, storedAreaOrder, formVars, now, nextId,
                   showWelcome, userCategories, archivedCategories,
                   areaOrder, viewVars, scanVars>>
    /\ PersistGoals

\* handleArchiveCategory when confirm() returns `confirmed`
handleArchiveCategoryAnswered(confirmed) ==
    /\ ~showWelcome
    /\ Len(archivedCategories) < MaxArchivedCats
    /\ \E k \in 1..Len(areaOrder) :
          LET area == areaOrder[k] IN
          IF confirmed
          THEN /\ userCategories' = Without(userCategories, area)
               /\ areaOrder' = Without(areaOrder, area)
               /\ archivedCategories' = Append(archivedCategories, area)
               /\ goals' = ArchiveArea(goals, area)
          ELSE UNCHANGED <<userCategories, areaOrder, archivedCategories, goals>>
    /\ UNCHANGED <<startVars, formVars, now, nextId, showWelcome, viewVars, scanVars>>
    /\ IF confirmed THEN PersistGoals /\ PersistProfile ELSE UNCHANGED storeVars

handleArchiveCategory == \E confirmed \in BOOLEAN : handleArchiveCategoryAnswered(confirmed)

handleToggleComplete ==
    /\ ~showWelcome
    /\ \E i \in 1..Len(goals) :
          /\ Rendered(goals[i])
          /\ goals' = ToggleComplete(goals, goals[i].id, now)
    /\ UNCHANGED <<startVars, storedProfile, storedAreaOrder, formVars, now, nextId,
                   showWelcome, userCategories, archivedCategories,
                   areaOrder, viewVars, scanVars>>
    /\ PersistGoals

\* the step controls of a card: !goal.completed && !goal.archived && !task.deleted
StepControls(g, task) == Rendered(g) /\ ~g.completed /\ ~g.archived /\ ~task.deleted

\* the check box, shown when (task.targetProgress || 0) <= 1
handleToggleSubTask ==
    /\ ~showWelcome
    /\ \E i \in 1..Len(goals) : \E k \in 1..Len(goals[i].subTasks) :
          /\ StepControls(goals[i], goals[i].subTasks[k])
          /\ goals[i].subTasks[k].targetProgress <= 1
          /\ goals' = ToggleSubTask(goals, goals[i].id, goals[i].subTasks[k].id, now)
    /\ UNCHANGED <<startVars, storedProfile, storedAreaOrder, formVars, now, nextId,
                   showWelcome, userCategories, archivedCategories,
                   areaOrder, viewVars, scanVars>>
    /\ PersistGoals

\* the - and + buttons, shown when task.targetProgress > 1
handleSubTaskProgress ==
    /\ ~showWelcome
    /\ \E i \in 1..Len(goals) : \E k \in 1..Len(goals[i].subTasks) : \E delta \in {-1, 1} :
          /\ StepControls(goals[i], goals[i].subTasks[k])
          /\ goals[i].subTasks[k].targetProgress > 1
          /\ goals' = SubTaskProgress(goals, goals[i].id, goals[i].subTasks[k].id, delta, now)
    /\ UNCHANGED <<startVars, storedProfile, storedAreaOrder, formVars, now, nextId,
                   showWelcome, userCategories, archivedCategories,
                   areaOrder, viewVars, scanVars>>
    /\ PersistGoals

Next ==
    \/ Tick
    \/ toggleCategory
    \/ addCustomCategory
    \/ handleWelcomeComplete
    \/ handleAddNewCategory
    \/ handleAddGoal
    \/ handleUpdateGoal
    \/ handleTogglePinned
    \/ handleDeleteGoal
    \/ handleToggleArchive
    \/ handleArchiveCategory
    \/ handleToggleComplete
    \/ handleToggleSubTask
    \/ handleSubTaskProgress

Spec == Init /\ [][Next]_vars

----------------------------------------------------------------------------
(* Claims about the goal repository (specification Spec).                  *)

AllSubTasks == {<<i, k>> \in (1..Len(goals)) \X (1..MaxSubTasks + 1) :
                  k <= Len(goals[i].subTasks)}

\* C1: after any sequence of goal operations, every completed goal is archived.
\* The code lets handleToggleArchive un-archive a completed goal.
C1_CompletedImpliesArchived ==
    \A i \in 1..Len(goals) : goals[i].completed => goals[i].archived

\* C2: completedAt is set if and only if completed is true; handleToggleComplete
\* sets it (to the current time) when it completes a goal and clears it when it
\* reactivates the goal, and no other operation changes completed or completedAt.
C2_Inv ==
    \A i \in 1..Len(goals) : IsDefined(goals[i].completedAt) <=> goals[i].completed

C2_Step ==
    \A i \in 1..Len(goals) : \A j \in 1..Len(goals') :
        (goals[i].id = goals'[j].id
         /\ (goals[i].completed # goals'[j].completed
             \/ goals[i].completedAt # goals'[j].completedAt))
        => /\ handleToggleComplete
           /\ goals'[j].completed = ~goals[i].completed
           /\ goals'[j].completedAt = IF goals[i].completed THEN Undefined ELSE Some(now)

C2_CompletedAtIffCompleted == [](C2_Inv) /\ [][C2_Step]_vars

\* a goal completed after the clock moved, and a reactivated goal's state is
\* reachable from it
C2_Witness ==
    \E i \in 1..Len(goals) :
        goals[i].completed /\ goals[i].completedAt = Some(MaxNow) /\ goals[i].createdAt < MaxNow

\* C3: every sub-task with currentProgress >= max(1, targetProgress) is completed,
\* also after the goal form changed the targetProgress of an existing sub-task.
C3_ProgressImpliesCompleted ==
    \A p \in AllSubTasks :
        LET task == goals[p[1]].subTasks[p[2]]
        IN task.currentProgress >= Max2(1, task.targetProgress) => task.completed

\* C4: a step of handleSubTaskProgress on a sub-task with T = max(1, targetProgress):
\* +1 reaching exactly T completes it, -1 from T un-completes it, and the new
\* currentProgress lies in 0..T.
C4_Step ==
    \A i \in 1..Len(goals) : \A k \in 1..Len(goals[i].subTasks) : \A delta \in {-1, 1} :
        LET task == goals[i].subTasks[k]
            T == Max2(1, task.targetProgress)
        IN (/\ StepControls(goals[i], task)
            /\ task.targetProgress > 1
            /\ goals' = SubTaskProgress(goals, goals[i].id, task.id, delta, now))
           => LET after == goals'[i].subTasks[k]
              IN /\ (delta = 1 /\ task.currentProgress + 1 = T) => after.completed
                 /\ (delta = -1 /\ task.currentProgress = T) => ~after.completed
                 /\ after.currentProgress \in 0..T
                 /\ after.currentProgress = T => after.completed

C4_ProgressStep == [][C4_Step]_vars

\* a multi-check-in sub-task brought to its target by + steps
C4_Witness ==
    \E p \in AllSubTasks :
        LET task == goals[p[1]].subTasks[p[2]]
        IN task.targetProgress > 1 /\ task.currentProgress = task.targetProgress
           /\ task.completed

----------------------------------------------------------------------------
(* The derived view as a function of its inputs (specification SpecView):  *)
(* Init draws a goal collection the repository can hold, the actions are   *)
(* the sort, filter and search handlers; activeGoalsByArea is recomputed   *)
(* from the state at every render.                                         *)

ViewAreaA == "Health & Wellness"
ViewAreaB == "Side project"
ViewAreaStale == "Others"       \* a category archived by handleArchiveCategory

ViewLevel(n) == IF n = 0 THEN "Easy" ELSE IF n = 1 THEN "Medium" ELSE "Hard"
ViewPriority(n) == IF n = 0 THEN "Low" ELSE IF n = 1 THEN "Medium" ELSE "High"
ViewDeadline(n) == IF n = 0 THEN Undefined ELSE Some(4 + n)

\* Nine goals of one bucket in which every pair of values of (level, priority,
\* deadline, completed/pinned) occurs together: a, b, a+b and a+2b modulo 3.
KeySamples ==
    {[title |-> <<"A", "b">>, description |-> << >>,
      level |-> ViewLevel(a), priority |-> ViewPriority(b),
      deadline |-> ViewDeadline((a + b) % 3),
      completed |-> ((a + 2 * b) % 3 = 0), pinned |-> ((a + 2 * b) % 3 = 1),
      area |-> ViewAreaA, archived |-> FALSE] : a \in 0..2, b \in 0..2}

\* Four goals that differ in what decides the bucket: text, area, archived.
PlacementSamples ==
    {[title |-> <<"b">>, description |-> << >>, level |-> "Medium",
      priority |-> "High", deadline |-> Undefined, completed |-> FALSE,
      pinned |-> TRUE, area |-> ViewAreaA, archived |-> FALSE],
     [title |-> <<"b">>, description |-> <<"a", "B">>, level |-> "Medium",
      priority |-> "Low", deadline |-> Some(5), completed |-> FALSE,
      pinned |-> FALSE, area |-> ViewAreaB, archived |-> FALSE],
     [title |-> <<"A", "b">>, description |-> << >>, level |-> "Hard",
      priority |-> "High", deadline |-> Undefined, completed |-> TRUE,
      pinned |-> FALSE, area |-> ViewAreaA, archived |-> TRUE],
     [title |-> <<"A", "b">>, description |-> << >>, level |-> "Easy",
      priority |-> "Medium", deadline |-> Some(6), completed |-> FALSE,
      pinned |-> FALSE, area |-> ViewAreaStale, archived |-> FALSE]}

GoalSamples == KeySamples \cup PlacementSamples
ViewTimes == {1, 2}

\* The collection after n handleAddGoal calls and later edits: new goals are put
\* in front, so order falls and createdAt does not rise along the array.
ViewGoal(sample, id, order, created) ==
    [id |-> id, title |-> sample.title, description |-> sample.description,
     level |-> sample.level, priority |-> sample.priority, area |-> sample.area,
     deadline |-> sample.deadline, pinned |-> sample.pinned, order |-> order,
     completed |-> sample.completed, archived |-> sample.archived,
     createdAt |-> created,
     completedAt |-> IF sample.completed THEN Some(created) ELSE Undefined,
     lastInteractionAt |-> created, subTasks |-> << >>]

ViewCollections ==
    UNION {{[i \in 1..n |-> ViewGoal(c[i][1], n + 1 - i, n - i, c[i][2])] :
              c \in {d \in [1..n -> GoalSamples \X ViewTimes] :
                       \A i \in 1..n : \A j \in 1..n : i < j => d[i][2] >= d[j][2]}} :
           n \in 0..MaxViewGoals}

ViewQueries == {<< >>, <<"a", "B">>}

InitView ==
    /\ goals \in ViewCollections
    /\ now = 3
    /\ nextId = Len(goals) + 1
    /\ showWelcome = FALSE
    /\ areaOrder \in {<<ViewAreaA, ViewAreaB>>, <<ViewAreaB>>}
    /\ userCategories = areaOrder
    /\ archivedCategories = <<ViewAreaStale>>
    /\ searchQuery = << >>
    /\ sortBy = "Newest"
    /\ activeSort = NoFilter
    /\ notifications = << >>
    /\ activeToast = Undefined
    /\ scanTimer = ScheduledScan(goals, showWelcome)
    /\ pendingNudges = << >>
    /\ InitSession("Ann")

\* the four sort buttons other than "Reset all"
SetSortBy ==
    /\ \E option \in SortOptions \ {"Reset"} : sortBy' = option
    /\ UNCHANGED <<startVars, storeVars, formVars, repoVars, scanVars, searchQuery, activeSort>>

handleResetFilters ==
    /\ activeSort' = NoFilter
    /\ sortBy' = "Newest"
    /\ searchQuery' = << >>
    /\ UNCHANGED <<startVars, storeVars, formVars, repoVars, scanVars>>

handleDifficultyClick ==
    /\ \E level \in GoalLevelValues : activeSort' = [type |-> "difficulty", value |-> level]
    /\ UNCHANGED <<startVars, storeVars, formVars, repoVars, scanVars, searchQuery, sortBy>>

handlePriorityClick ==
    /\ \E priority \in GoalPriorityValues : activeSort' = [type |-> "priority", value |-> priority]
    /\ UNCHANGED <<startVars, storeVars, formVars, repoVars, scanVars, searchQuery, sortBy>>

handleStatusClick ==
    /\ \E status \in {"Completed", "Active"} : activeSort' = [type |-> "status", value |-> status]
    /\ UNCHANGED <<startVars, storeVars, formVars, repoVars, scanVars, searchQuery, sortBy>>

\* the area chart of the Dashboard: built-in areas with a non-archived goal
handleDashboardAreaClick ==
    /\ \E area \in Range(LifeAreaValues) :
          /\ \E i \in 1..Len(goals) : ~goals[i].archived /\ goals[i].area = area
          /\ activeSort' = [type |-> "area", value |-> area]
    /\ UNCHANGED <<startVars, storeVars, formVars, repoVars, scanVars, searchQuery, sortBy>>

\* onChange of the search input
SetSearchQuery ==
    /\ \E q \in ViewQueries : searchQuery' = q
    /\ UNCHANGED <<startVars, storeVars, formVars, repoVars, scanVars, sortBy, activeSort>>

NextView ==
    \/ SetSortBy
    \/ handleResetFilters
    \/ handleDifficultyClick
    \/ handlePriorityClick
    \/ handleStatusClick
    \/ handleDashboardAreaClick
    \/ SetSearchQuery

SpecView == InitView /\ [][NextView]_vars

----------------------------------------------------------------------------
(* Claims about the grouped view (specification SpecView).                 *)

\* q occurs in text when letter case is ignored
TextContains(text, q) ==
    \E k \in 0..(Len(text) - Len(q)) :
        \A j \in 1..Len(q) : LowerChar(text[k + j]) = LowerChar(q[j])

ShouldAppear(g) ==
    /\ ~g.archived
    /\ (searchQuery = << >> \/ TextContains(g.title, searchQuery)
        \/ TextContains(g.description, searchQuery))
    /\ g.area \in Range(areaOrder)

\* the places (bucket, position) at which the view shows the goal with this id
PlacesOf(id) ==
    {p \in (DOMAIN activeGoalsByArea) \X (1..Len(goals)) :
        /\ p[2] <= Len(activeGoalsByArea[p[1]])
        /\ activeGoalsByArea[p[1]][p[2]].id = id}

\* C5: the buckets of the grouped view are exactly the labels of areaOrder; a goal
\* is in the view, once and in the bucket of its own area, if and only if it is
\* not archived, matches the search query and its area is in areaOrder.
C5_Membership ==
    /\ DOMAIN activeGoalsByArea = Range(areaOrder)
    /\ \A area \in DOMAIN activeGoalsByArea :
          \A k \in 1..Len(activeGoalsByArea[area]) :
             activeGoalsByArea[area][k] \in Range(goals)
    /\ \A i \in 1..Len(goals) :
          IF ShouldAppear(goals[i])
          THEN /\ Cardinality(PlacesOf(goals[i].id)) = 1
               /\ \A p \in PlacesOf(goals[i].id) : p[1] = goals[i].area
          ELSE PlacesOf(goals[i].id) = {}

\* a query that matches one goal by its description only and hides another,
\* beside an archived or stale-area goal that is left out
C5_Witness ==
    /\ searchQuery # << >>
    /\ \E i \in 1..Len(goals) :
          /\ ShouldAppear(goals[i])
          /\ ~TextContains(goals[i].title, searchQuery)
    /\ \E i \in 1..Len(goals) :
          /\ ~ShouldAppear(goals[i])
          /\ (goals[i].archived \/ goals[i].area \notin Range(areaOrder))

\* the matching predicate of the active filter, as the specification states it
MatchesFilter(g) ==
    CASE activeSort.type = "difficulty" -> g.level = activeSort.value
      [] activeSort.type = "priority" -> g.priority = activeSort.value
      [] activeSort.type = "status" -> g.completed = (activeSort.value = "Completed")
      [] activeSort.type = "area" -> g.area = activeSort.value
      [] OTHER -> TRUE

SameMatch(g, h) == MatchesFilter(g) = MatchesFilter(h)

\* pairs (earlier, later) of one bucket
BucketPairs ==
    {q \in (DOMAIN activeGoalsByArea) \X (1..Len(goals)) \X (1..Len(goals)) :
        q[2] < q[3] /\ q[3] <= Len(activeGoalsByArea[q[1]])}
Earlier(q) == activeGoalsByArea[q[1]][q[2]]
Later(q) == activeGoalsByArea[q[1]][q[3]]

\* C6: with an active filter, in every bucket and sort mode, every goal matching
\* the filter precedes every goal that does not match it.
C6_FilterPinning ==
    activeSort # NoFilter =>
        \A q \in BucketPairs : MatchesFilter(Later(q)) => MatchesFilter(Earlier(q))

\* filter priority = High, sort Newest: a High goal stands before a newer goal
\* that is not High
C6_Witness ==
    /\ activeSort = [type |-> "priority", value |-> "High"]
    /\ sortBy = "Newest"
    /\ \E q \in BucketPairs :
          /\ Earlier(q).priority = "High" /\ Later(q).priority # "High"
          /\ Earlier(q).createdAt < Later(q).createdAt

ManualOrdered ==
    \A q \in BucketPairs :
        LET a == Earlier(q)
            b == Later(q)
        IN /\ (a.completed => b.completed)
           /\ (a.completed = b.completed => (b.pinned => a.pinned))
           /\ ((a.completed = b.completed /\ a.pinned = b.pinned) => a.order <= b.order)

\* C7: manual ordering is the default sort mode and the mode "Reset" selects: at
\* startup and after the user presses Reset every bucket has incomplete goals
\* before completed ones, then pinned before unpinned, then ascending order.
C7_ManualIsDefault ==
    /\ InitView => ManualOrdered
    /\ [][handleResetFilters => ManualOrdered']_vars

PriorityScoreOf(g) ==
    CASE g.priority = "High" -> 3 [] g.priority = "Medium" -> 2 [] g.priority = "Low" -> 1
DifficultyScoreOf(g) ==
    CASE g.level = "Hard" -> 3 [] g.level = "Medium" -> 2 [] g.level = "Easy" -> 1

\* C8: among goals of one bucket with the same filter-match status, Newest orders
\* by createdAt descending, Priority by priority score descending and Difficulty
\* by difficulty score descending.
C8_KeyOrder ==
    \A q \in BucketPairs :
        SameMatch(Earlier(q), Later(q)) =>
            /\ sortBy = "Newest" => Earlier(q).createdAt >= Later(q).createdAt
            /\ sortBy = "Priority" => PriorityScoreOf(Earlier(q)) >= PriorityScoreOf(Later(q))
            /\ sortBy = "Difficulty" => DifficultyScoreOf(Earlier(q)) >= DifficultyScoreOf(Later(q))

\* sort Priority moved a High goal in front of a Low goal that was added later
C8_Witness ==
    /\ sortBy = "Priority"
    /\ \E q \in BucketPairs :
          /\ SameMatch(Earlier(q), Later(q))
          /\ Earlier(q).priority = "High" /\ Later(q).priority = "Low"
          /\ Earlier(q).order < Later(q).order

\* C9: in sort mode Deadline, among goals of one bucket with the same filter-match
\* status, deadlines ascend and goals without a deadline come last.
C9_DeadlineOrder ==
    sortBy = "Deadline" =>
        \A q \in BucketPairs :
            SameMatch(Earlier(q), Later(q)) =>
                /\ (IsDefined(Earlier(q).deadline) /\ IsDefined(Later(q).deadline))
                       => ValueOf(Earlier(q).deadline) <= ValueOf(Later(q).deadline)
                /\ ~IsDefined(Earlier(q).deadline) => ~IsDefined(Later(q).deadline)

\* sort Deadline moved a goal with a deadline in front of one without
C9_Witness ==
    /\ sortBy = "Deadline"
    /\ \E q \in BucketPairs :
          /\ SameMatch(Earlier(q), Later(q))
          /\ IsDefined(Earlier(q).deadline) /\ ~IsDefined(Later(q).deadline)
          /\ Earlier(q).order < Later(q).order

----------------------------------------------------------------------------
(* Progress percentage of a goal card (renderGoalCard).                    *)

RECURSIVE SumTargets(_)
SumTargets(tasks) ==
    IF tasks = << >> THEN 0
    ELSE SumTargets(Tail(tasks)) + Max2(1, Head(tasks).targetProgress)

RECURSIVE SumCurrents(_)
SumCurrents(tasks) ==
    IF tasks = << >> THEN 0
    ELSE SumCurrents(Tail(tasks)) + Head(tasks).currentProgress

\* variant: the steps still to do are summed instead of the steps done
totalCurrent_Remaining(g) ==
    LET live(task) == ~task.deleted
    IN SumTargets(SelectSeq(g.subTasks, live)) - SumCurrents(SelectSeq(g.subTasks, live))

\* variant: the soft-deleted sub-tasks are counted as well
activeSubTasks_KeepsDeleted(g) == g.subTasks

\* goal.subTasks.filter(t => !t.deleted)
activeSubTasks(g) ==
    LET live(task) == ~task.deleted IN SelectSeq(g.subTasks, live)

totalTarget(g) == SumTargets(activeSubTasks(g))
totalCurrent(g) == SumCurrents(activeSubTasks(g))

\* Math.round of the non-negative fraction n / d: floor(n / d + 1/2)
RoundRatio(n, d) == (2 * n + d) \div (2 * d)

\* the lower clamp 0.0001 of timeRatio, as 1 / TimeRatioFloorInverse
TimeRatioFloorInverse == 10000

\* variant: the ratio is capped at 1 but has no lower clamp
timeRatio_Unclamped(g, t) ==
    LET totalDuration == Max2(1, ValueOf(g.deadline) - g.createdAt)
        elapsed == Max2(1, t - g.createdAt)
    IN IF elapsed >= totalDuration THEN <<1, 1>> ELSE <<elapsed, totalDuration>>

\* timeRatio = Math.max(0.0001, Math.min(1, elapsed / totalDuration)), kept as
\* the fraction <<numerator, denominator>>
timeRatio(g, t) ==
    LET totalDuration == Max2(1, ValueOf(g.deadline) - g.createdAt)
        elapsed == Max2(1, t - g.createdAt)
    IN IF elapsed >= totalDuration THEN <<1, 1>>
       ELSE IF elapsed * TimeRatioFloorInverse < totalDuration
            THEN <<1, TimeRatioFloorInverse>>
       ELSE <<elapsed, totalDuration>>

\* progressPct of the card of goal g rendered at time t
progressPct(g, t) ==
    IF g.completed THEN 100
    ELSE IF totalTarget(g) > 0
    THEN IF ~IsDefined(g.deadline)
         THEN RoundRatio(totalCurrent(g) * 100, totalTarget(g))
         ELSE RoundRatio(totalCurrent(g) * timeRatio(g, t)[2] * 100,
                         totalTarget(g) * timeRatio(g, t)[1])
    ELSE 0

cappedProgressPct(g, t) == Min2(100, progressPct(g, t))

----------------------------------------------------------------------------
(* The progress percentage as a function of its inputs (specification      *)
(* SpecProgress): Init draws one goal with its sub-tasks, the actions are  *)
(* the clock and the handlers of the card; progressPct is recomputed from  *)
(* the state at every render.                                              *)

\* a deadline so far away that one time unit is less than 0.0001 of the run
FarDeadline == 2 * TimeRatioFloorInverse + 5
ProgressDeadlines == {Undefined, Some(1), Some(3), Some(11), Some(FarDeadline)}
ProgressCreated == {1, 2}

ProgressTask(id, target, current, deleted) ==
    [id |-> id, text |-> <<"s">>, completed |-> (current >= Max2(1, target)),
     currentProgress |-> current, targetProgress |-> target, deleted |-> deleted]

\* the lists within the bounds, and one sub-task of four check-ins half done
ProgressTaskLists ==
    UNION {{[k \in 1..n |-> ProgressTask(k, c[k][1], c[k][2], c[k][3])] :
              c \in [1..n -> (0..MaxTarget) \X (0..MaxTarget) \X BOOLEAN]} :
           n \in 0..MaxProgressSubTasks}
    \cup {<<ProgressTask(1, 4, 2, FALSE)>>}

ProgressGoal(completed, deadline, created, tasks) ==
    [id |-> 1, title |-> <<"A">>, description |-> << >>, level |-> "Medium",
     priority |-> "Medium", area |-> ViewAreaA, deadline |-> deadline,
     pinned |-> FALSE, order |-> 0, completed |-> completed, archived |-> completed,
     createdAt |-> created,
     completedAt |-> IF completed THEN Some(created) ELSE Undefined,
     lastInteractionAt |-> created, subTasks |-> tasks]

InitProgress ==
    /\ \E completed \in BOOLEAN, deadline \in ProgressDeadlines,
          created \in ProgressCreated, tasks \in ProgressTaskLists :
          /\ goals = <<ProgressGoal(completed, deadline, created, tasks)>>
          /\ now = created
    /\ nextId = 2
    /\ showWelcome = FALSE
    /\ userCategories = <<ViewAreaA>>
    /\ areaOrder = <<ViewAreaA>>
    /\ archivedCategories = << >>
    /\ searchQuery = << >>
    /\ sortBy = "Newest"
    /\ activeSort = NoFilter
    /\ notifications = << >>
    /\ activeToast = Undefined
    /\ scanTimer = ScheduledScan(goals, showWelcome)
    /\ pendingNudges = << >>
    /\ InitSession("Ann")

\* Date.now() of a later render
ProgressTick ==
    /\ now < MaxProgressTime
    /\ now' = now + 1
    /\ UNCHANGED <<startVars, storeVars, formVars, goals, nextId, showWelcome,
                   userCategories, archivedCategories,
                   areaOrder, viewVars, scanVars>>

NextProgress ==
    \/ ProgressTick
    \/ handleToggleComplete
    \/ handleToggleSubTask
    \/ handleSubTaskProgress

SpecProgress == InitProgress /\ [][NextProgress]_vars

----------------------------------------------------------------------------
(* Claims about the progress percentage (specification SpecProgress).      *)

LiveIndexes(g) == {k \in 1..Len(g.subTasks) : ~g.subTasks[k].deleted}

\* sum over the sub-tasks at the indexes ks of max(1, target) and of current
RECURSIVE TargetOver(_, _)
TargetOver(g, ks) ==
    IF ks = {} THEN 0
    ELSE LET k == CHOOSE x \in ks : TRUE
             target == g.subTasks[k].targetProgress
         IN (IF target >= 1 THEN target ELSE 1) + TargetOver(g, ks \ {k})

RECURSIVE CurrentOver(_, _)
CurrentOver(g, ks) ==
    IF ks = {} THEN 0
    ELSE LET k == CHOOSE x \in ks : TRUE
         IN g.subTasks[k].currentProgress + CurrentOver(g, ks \ {k})

LiveTarget(g) == TargetOver(g, LiveIndexes(g))
LiveCurrent(g) == CurrentOver(g, LiveIndexes(g))

\* the goal without its soft-deleted sub-tasks
Purged(g) ==
    LET live(task) == ~task.deleted IN [g EXCEPT !.subTasks = SelectSeq(g.subTasks, live)]

\* C10: the progress of a completed goal is 100 whatever its sub-tasks, deadline
\* and the time are; the progress of a goal that is not completed and has no
\* non-deleted sub-task is 0; the soft-deleted sub-tasks add nothing to
\* totalTarget and totalCurrent, so the percentage is that of the goal without them.
C10_ProgressEnds ==
    \A i \in 1..Len(goals) :
        LET g == goals[i] IN
        /\ g.completed => progressPct(g, now) = 100
        /\ (~g.completed /\ LiveIndexes(g) = {}) => progressPct(g, now) = 0
        /\ totalTarget(g) = LiveTarget(g)
        /\ totalCurrent(g) = LiveCurrent(g)
        /\ progressPct(g, now) = progressPct(Purged(g), now)

\* a goal with a deadline, rendered after its creation, part done, with a
\* soft-deleted sub-task that has progress
C10_Witness ==
    \E i \in 1..Len(goals) :
        LET g == goals[i] IN
        /\ ~g.completed
        /\ \E k \in 1..Len(g.subTasks) :
              g.subTasks[k].deleted /\ g.subTasks[k].currentProgress > 0
        /\ LiveIndexes(g) # {}
        /\ IsDefined(g.deadline) /\ now > g.createdAt
        /\ progressPct(g, now) > 0 /\ progressPct(g, now) < 100

\* goal g with the currentProgress of its k-th sub-task raised by d
Raised(g, k, d) ==
    [g EXCEPT !.subTasks[k].currentProgress = g.subTasks[k].currentProgress + d]

\* C11: for a fixed goal (same completed flag, deadline, createdAt and sub-task
\* targets) and a fixed now, the progress percentage does not fall when the
\* currentProgress of any sub-task is raised.
C11_MonotoneInCurrent ==
    \A i \in 1..Len(goals) :
        \A k \in 1..Len(goals[i].subTasks) : \A d \in 1..MaxTarget :
            progressPct(Raised(goals[i], k, d), now) >= progressPct(goals[i], now)

\* a goal with a deadline, rendered after its creation, whose percentage rises
\* strictly when a sub-task gets one more step
C11_Witness ==
    \E i \in 1..Len(goals) :
        /\ ~goals[i].completed
        /\ IsDefined(goals[i].deadline) /\ now > goals[i].createdAt
        /\ \E k \in 1..Len(goals[i].subTasks) :
              /\ goals[i].subTasks[k].currentProgress > 0
              /\ progressPct(Raised(goals[i], k, 1), now) > progressPct(goals[i], now)

\* the time ratio as a fraction <<p, q>>, from the statement of the claim:
\* clamp(max(1, now - createdAt) / max(1, deadline - createdAt), 0.0001, 1)
ClaimedTimeRatio(g, t) ==
    LET e == IF t - g.createdAt > 1 THEN t - g.createdAt ELSE 1
        d == IF ValueOf(g.deadline) - g.createdAt > 1
             THEN ValueOf(g.deadline) - g.createdAt ELSE 1
    IN CASE e > d -> <<1, 1>>
         [] e <= d /\ 10000 * e < d -> <<1, 10000>>
         [] OTHER -> <<e, d>>

\* r is an integer nearest to the fraction p / q (q > 0)
NearestTo(r, p, q) == (2 * r - 1) * q <= 2 * p /\ 2 * p <= (2 * r + 1) * q

\* the goal of the example: one live sub-task, target 4, current 2, deadline ten
\* time units after createdAt
IsExampleGoal(g) ==
    /\ ~g.completed
    /\ Len(g.subTasks) = 1 /\ ~g.subTasks[1].deleted
    /\ g.subTasks[1].targetProgress = 4 /\ g.subTasks[1].currentProgress = 2
    /\ g.deadline = Some(g.createdAt + 10)

\* C12: for a goal that is not completed and has a live sub-task, the raw
\* progress is round(100 * (totalCurrent / totalTarget) / timeRatio) with a
\* deadline and round(100 * totalCurrent / totalTarget) without, and the shown
\* value is min(100, raw); in the example the raw value is 100 at half time and
\* 500 (shown 100) at a tenth of the time.
C12_ProgressFormula ==
    \A i \in 1..Len(goals) :
        LET g == goals[i]
            raw == progressPct(g, now)
        IN /\ (~g.completed /\ LiveIndexes(g) # {} /\ IsDefined(g.deadline)) =>
                  NearestTo(raw, 100 * LiveCurrent(g) * ClaimedTimeRatio(g, now)[2],
                            LiveTarget(g) * ClaimedTimeRatio(g, now)[1])
           /\ (~g.completed /\ LiveIndexes(g) # {} /\ ~IsDefined(g.deadline)) =>
                  NearestTo(raw, 100 * LiveCurrent(g), LiveTarget(g))
           /\ cappedProgressPct(g, now) = (IF raw < 100 THEN raw ELSE 100)
           /\ (IsExampleGoal(g) /\ now = g.createdAt + 5) => raw = 100
           /\ (IsExampleGoal(g) /\ now = g.createdAt + 1) =>
                  (raw = 500 /\ cappedProgressPct(g, now) = 100)

\* the example goal rendered one time unit after its creation
C12_Witness ==
    \E i \in 1..Len(goals) :
        /\ IsExampleGoal(goals[i]) /\ now = goals[i].createdAt + 1
        /\ progressPct(goals[i], now) > 100

\* the example goal rendered at half of its time
C12_WitnessHalf ==
    \E i \in 1..Len(goals) : IsExampleGoal(goals[i]) /\ now = goals[i].createdAt + 5

----------------------------------------------------------------------------
(* Analytics summary: stats of Dashboard (useMemo over its goals prop).    *)

\* <Dashboard goals={goals.filter(g => !g.archived)} .../>
DashboardGoals ==
    LET shown(g) == ~g.archived IN SelectSeq(goals, shown)

totalGoals(gs) == Len(gs)

completedCount(gs) ==
    LET done(g) == g.completed IN Len(SelectSeq(gs, done))

activeCount(gs) == totalGoals(gs) - completedCount(gs)

\* variant: the rate is cut off instead of rounded
completionRate_Truncated(gs) ==
    IF totalGoals(gs) > 0 THEN (completedCount(gs) * 100) \div totalGoals(gs) ELSE 0

completionRate(gs) ==
    IF totalGoals(gs) > 0 THEN RoundRatio(completedCount(gs) * 100, totalGoals(gs)) ELSE 0

AreaCount(gs, area) ==
    LET inArea(g) == g.area = area IN Len(SelectSeq(gs, inArea))
LevelCount(gs, level) ==
    LET atLevel(g) == g.level = level IN Len(SelectSeq(gs, atLevel))
PriorityCount(gs, priority) ==
    LET atPriority(g) == g.priority = priority IN Len(SelectSeq(gs, atPriority))

\* Object.values(LifeArea).map(area => ({name, value})).filter(item => item.value > 0)
areaData(gs) ==
    LET counted == [k \in 1..Len(LifeAreaValues) |->
                      [name |-> LifeAreaValues[k], value |-> AreaCount(gs, LifeAreaValues[k])]]
        positive(item) == item.value > 0
    IN SelectSeq(counted, positive)

difficultyData(gs) ==
    <<[name |-> "Easy", count |-> LevelCount(gs, "Easy")],
      [name |-> "Medium", count |-> LevelCount(gs, "Medium")],
      [name |-> "Hard", count |-> LevelCount(gs, "Hard")]>>

priorityData(gs) ==
    <<[name |-> "High", count |-> PriorityCount(gs, "High")],
      [name |-> "Medium", count |-> PriorityCount(gs, "Medium")],
      [name |-> "Low", count |-> PriorityCount(gs, "Low")]>>

----------------------------------------------------------------------------
(* The analytics summary as a function of its input (specification         *)
(* SpecStats): Init draws a goal collection, the actions are the handlers  *)
(* that change what the summary is given.                                  *)

StatsCollections ==
    UNION {{[i \in 1..n |-> ViewGoal(c[i], n + 1 - i, n - i, 1)] :
              c \in [1..n -> GoalSamples]} :
           n \in 0..MaxStatsGoals}

InitStats ==
    /\ goals \in StatsCollections
    /\ now = 1
    /\ nextId = Len(goals) + 1
    /\ showWelcome = FALSE
    /\ userCategories = <<ViewAreaA, ViewAreaB>>
    /\ areaOrder = <<ViewAreaA, ViewAreaB>>
    /\ archivedCategories = <<ViewAreaStale>>
    /\ searchQuery = << >>
    /\ sortBy = "Newest"
    /\ activeSort = NoFilter
    /\ notifications = << >>
    /\ activeToast = Undefined
    /\ scanTimer = ScheduledScan(goals, showWelcome)
    /\ pendingNudges = << >>
    /\ InitSession("Ann")

NextStats ==
    \/ handleToggleComplete
    \/ handleToggleArchive

SpecStats == InitStats /\ [][NextStats]_vars

----------------------------------------------------------------------------
(* Claims about the analytics summary (specification SpecStats).           *)

\* positions of the summary's input at which p holds
ShownCompleted == {i \in 1..Len(DashboardGoals) : DashboardGoals[i].completed}
ShownAtLevel(level) == {i \in 1..Len(DashboardGoals) : DashboardGoals[i].level = level}
ShownAtPriority(priority) ==
    {i \in 1..Len(DashboardGoals) : DashboardGoals[i].priority = priority}
ShownInArea(area) == {i \in 1..Len(DashboardGoals) : DashboardGoals[i].area = area}

\* C13: for the goal set given to the analytics summary, totalGoals is its size,
\* completedCount the number of completed goals, activeCount their difference,
\* completionRate is round(completedCount / totalGoals * 100) and 0 for the
\* empty set, and every difficulty and priority count is the number of goals
\* of that level or priority.
C13_SummaryCounts ==
    LET gs == DashboardGoals IN
    /\ totalGoals(gs) = Len(gs)
    /\ completedCount(gs) = Cardinality(ShownCompleted)
    /\ activeCount(gs) = Len(gs) - Cardinality(ShownCompleted)
    /\ IF Len(gs) = 0 THEN completionRate(gs) = 0
       ELSE NearestTo(completionRate(gs), 100 * Cardinality(ShownCompleted), Len(gs))
    /\ \A level \in GoalLevelValues :
          /\ Cardinality({k \in 1..Len(difficultyData(gs)) :
                             difficultyData(gs)[k].name = level}) = 1
          /\ \A k \in 1..Len(difficultyData(gs)) :
                difficultyData(gs)[k].name = level =>
                    difficultyData(gs)[k].count = Cardinality(ShownAtLevel(level))
    /\ \A priority \in GoalPriorityValues :
          /\ Cardinality({k \in 1..Len(priorityData(gs)) :
                             priorityData(gs)[k].name = priority}) = 1
          /\ \A k \in 1..Len(priorityData(gs)) :
                priorityData(gs)[k].name = priority =>
                    priorityData(gs)[k].count = Cardinality(ShownAtPriority(priority))

\* three goals shown, two of them completed (rate 67), beside an archived one
\* that is left out
C13_Witness ==
    /\ Len(DashboardGoals) = 3
    /\ Cardinality(ShownCompleted) = 2
    /\ completionRate(DashboardGoals) = 67

\* the same for a summary that leaves an archived goal out
C13_WitnessArchived ==
    /\ Len(DashboardGoals) = 2 /\ Len(goals) = 3
    /\ Cardinality(ShownCompleted) = 1

\* C14: the area tally has, for every life area (built-in or custom label) with
\* at least one goal in the non-archived input, an entry with exactly that
\* number of goals, and no entry for an area without goals.
C14_AreaTally ==
    LET gs == DashboardGoals
        tally == areaData(gs)
    IN /\ \A i \in 1..Len(gs) :
             \E k \in 1..Len(tally) :
                /\ tally[k].name = gs[i].area
                /\ tally[k].value = Cardinality(ShownInArea(gs[i].area))
       /\ \A k \in 1..Len(tally) : ShownInArea(tally[k].name) # {}

----------------------------------------------------------------------------
(* Notification scan: checkSystems.  One time unit of `now` is one day     *)
(* (86400000 ms).                                                          *)

\* daysLeft <= 3
AlertWindowDays == 3
\* fourDaysMs = 4 * 24 * 60 * 60 * 1000
NeglectDays == 4

\* `deadline-${g.id}` and `nudge-${g.id}`: the prefix and the goal id
DeadlineAlert(g, t) == [id |-> <<"deadline", g.id>>, type |-> "deadline", timestamp |-> t]
NudgeAlert(gid, t) == [id |-> <<"nudge", gid>>, type |-> "nudge", timestamp |-> t]

\* variant: a deadline that is exactly now, or over, still counts
DeadlineDue_NoLowerLimit(g, t) ==
    /\ ~g.completed /\ ~g.archived /\ IsDefined(g.deadline)
    /\ ValueOf(g.deadline) - t <= AlertWindowDays

\* !g.completed && !g.archived && g.deadline && daysLeft > 0 && daysLeft <= 3
DeadlineDue(g, t) ==
    /\ ~g.completed /\ ~g.archived /\ IsDefined(g.deadline)
    /\ ValueOf(g.deadline) - t > 0
    /\ ValueOf(g.deadline) - t <= AlertWindowDays

\* goals.forEach(g => { if (...) newAlerts.push({id: `deadline-${g.id}`, ...}) })
deadlineAlerts(snapshot, t) ==
    LET due(g) == DeadlineDue(g, t)
        dueGoals == SelectSeq(snapshot, due)
    IN [k \in 1..Len(dueGoals) |-> DeadlineAlert(dueGoals[k], t)]

\* variant: the goal touched last is taken
neglectedGoal_Newest(snapshot) ==
    LET open(g) == ~g.completed /\ ~g.archived
        candidates == SelectSeq(snapshot, open)
    IN IF candidates = << >> THEN Undefined
       ELSE Some(candidates[CHOOSE i \in 1..Len(candidates) :
                    \A j \in 1..Len(candidates) :
                        candidates[j].lastInteractionAt <= candidates[i].lastInteractionAt])

\* goals.filter(g => !g.completed && !g.archived)
\*      .sort((a, b) => a.lastInteractionAt - b.lastInteractionAt)[0]
\* (the sort is stable: of the goals touched longest ago the first of the array)
neglectedGoal(snapshot) ==
    LET open(g) == ~g.completed /\ ~g.archived
        candidates == SelectSeq(snapshot, open)
        oldest == {i \in 1..Len(candidates) :
                     \A j \in 1..Len(candidates) :
                        candidates[i].lastInteractionAt <= candidates[j].lastInteractionAt}
    IN IF candidates = << >> THEN Undefined
       ELSE Some(candidates[CHOOSE i \in oldest : \A j \in oldest : i <= j])

\* neglectedGoal && (now - neglectedGoal.lastInteractionAt) > fourDaysMs
NudgeDue(snapshot, t) ==
    /\ IsDefined(neglectedGoal(snapshot))
    /\ t - ValueOf(neglectedGoal(snapshot)).lastInteractionAt > NeglectDays

NotificationIds(list) == {list[k].id : k \in 1..Len(list)}

\* variant: every new alert is put in front, listed already or not
FreshAlerts_NoDedup(newAlerts, prev) == newAlerts

\* newAlerts.filter(a => !existingIds.has(a.id))
FreshAlerts(newAlerts, prev) ==
    LET unseen(a) == a.id \notin NotificationIds(prev) IN SelectSeq(newAlerts, unseen)

\* if (newAlerts.length > 0) setNotifications(prev => [...fresh, ...prev])
NotificationsAfter(newAlerts, prev) == FreshAlerts(newAlerts, prev) \o prev

\* if (fresh.length > 0) setActiveToast(fresh[0])
ToastAfter(newAlerts, prev, toast) ==
    IF FreshAlerts(newAlerts, prev) # << >> THEN Some(FreshAlerts(newAlerts, prev)[1])
    ELSE toast

\* if (fresh.length > 0) setTimeout(() => setActiveToast(null), 7000): the timer
\* is kept with the id of the toast it was started with
TimersAfter(newAlerts, prev, timers) ==
    IF FreshAlerts(newAlerts, prev) # << >>
    THEN Append(timers, FreshAlerts(newAlerts, prev)[1].id)
    ELSE timers

\* the timer fires: checkSystems runs on the goals it closed over, up to the
\* await (a nudge is due) or to its end (no nudge is due)
checkSystems ==
    /\ IsDefined(scanTimer)
    /\ LET snapshot == ValueOf(scanTimer)
           newAlerts == deadlineAlerts(snapshot, now)
       IN IF NudgeDue(snapshot, now)
          THEN /\ pendingNudges' = Append(pendingNudges,
                      [newAlerts |-> newAlerts,
                       goal |-> ValueOf(neglectedGoal(snapshot)).id, now |-> now])
               /\ UNCHANGED <<notifications, activeToast, toastTimers>>
          ELSE /\ notifications' = NotificationsAfter(newAlerts, notifications)
               /\ activeToast' = ToastAfter(newAlerts, notifications, activeToast)
               /\ toastTimers' = TimersAfter(newAlerts, notifications, toastTimers)
               /\ UNCHANGED pendingNudges
    /\ scanTimer' = Undefined
    /\ UNCHANGED <<startVars, storeVars, formVars, repoVars, viewVars>>

\* getFriendlyNudge has no catch and checkSystems has none: the rejected await
\* ends the run before setNotifications
AlertsAfterFailure(run) == << >>

\* getFriendlyNudge resolves: the nudge is pushed and the run goes on to its end
getFriendlyNudgeResolved ==
    /\ \E k \in 1..Len(pendingNudges) :
          LET run == pendingNudges[k]
              newAlerts == Append(run.newAlerts, NudgeAlert(run.goal, run.now))
          IN /\ notifications' = NotificationsAfter(newAlerts, notifications)
             /\ activeToast' = ToastAfter(newAlerts, notifications, activeToast)
             /\ toastTimers' = TimersAfter(newAlerts, notifications, toastTimers)
             /\ pendingNudges' = SubSeq(pendingNudges, 1, k - 1)
                                   \o SubSeq(pendingNudges, k + 1, Len(pendingNudges))
    /\ UNCHANGED <<startVars, storeVars, formVars, repoVars, viewVars, scanTimer>>

\* getFriendlyNudge rejects (network, quota, key)
getFriendlyNudgeRejected ==
    /\ \E k \in 1..Len(pendingNudges) :
          LET newAlerts == AlertsAfterFailure(pendingNudges[k])
          IN /\ notifications' = NotificationsAfter(newAlerts, notifications)
             /\ activeToast' = ToastAfter(newAlerts, notifications, activeToast)
             /\ toastTimers' = TimersAfter(newAlerts, notifications, toastTimers)
             /\ pendingNudges' = SubSeq(pendingNudges, 1, k - 1)
                                   \o SubSeq(pendingNudges, k + 1, Len(pendingNudges))
    /\ UNCHANGED <<startVars, storeVars, formVars, repoVars, viewVars, scanTimer>>

\* "Clear all" of the notification panel
ClearAllNotifications ==
    /\ ~showWelcome
    /\ notifications' = << >>
    /\ UNCHANGED <<startVars, storeVars, formVars, repoVars, viewVars, activeToast, scanTimer,
                   pendingNudges, toastTimers>>

\* the close button of the toast
DismissToast ==
    /\ IsDefined(activeToast)
    /\ activeToast' = Undefined
    /\ UNCHANGED <<startVars, storeVars, formVars, repoVars, viewVars, notifications, scanTimer,
                   pendingNudges, toastTimers>>

\* a toast timer fires: setActiveToast(null), whatever toast is shown; timers of
\* one delay fire in the order they were started
ToastTimeout ==
    /\ toastTimers # << >>
    /\ activeToast' = Undefined
    /\ toastTimers' = Tail(toastTimers)
    /\ UNCHANGED <<startVars, storeVars, formVars, repoVars, viewVars, notifications, scanTimer,
                   pendingNudges>>

----------------------------------------------------------------------------
(* The notification scan under the handlers around it (specification       *)
(* SpecScan): Init is the application after loading a saved collection,    *)
(* with the timer of the first effect run pending.                         *)

ScanStart == MaxScanTime - 2

\* what the scan can tell apart: touched long ago / at the limit / today,
\* deadline within the window / at its edges / over / none, open or not
ScanSamples ==
    {[last |-> 1, deadline |-> Some(ScanStart + 3), completed |-> FALSE, archived |-> FALSE],
     [last |-> 1, deadline |-> Undefined, completed |-> FALSE, archived |-> FALSE],
     [last |-> ScanStart - NeglectDays, deadline |-> Some(ScanStart + 4),
      completed |-> FALSE, archived |-> FALSE],
     [last |-> ScanStart, deadline |-> Some(ScanStart + 1), completed |-> FALSE, archived |-> FALSE],
     [last |-> ScanStart, deadline |-> Some(ScanStart), completed |-> FALSE, archived |-> FALSE],
     [last |-> 1, deadline |-> Some(ScanStart - 1), completed |-> FALSE, archived |-> FALSE],
     [last |-> 1, deadline |-> Some(ScanStart + 2), completed |-> TRUE, archived |-> TRUE],
     [last |-> 1, deadline |-> Some(ScanStart + 2), completed |-> FALSE, archived |-> TRUE]}

ScanGoal(sample, id, order) ==
    [id |-> id, title |-> <<"A">>, description |-> << >>, level |-> "Medium",
     priority |-> "Medium", area |-> ViewAreaA, deadline |-> sample.deadline,
     pinned |-> FALSE, order |-> order, completed |-> sample.completed,
     archived |-> sample.archived, createdAt |-> 1,
     completedAt |-> IF sample.completed THEN Some(sample.last) ELSE Undefined,
     lastInteractionAt |-> sample.last, subTasks |-> << >>]

ScanCollections ==
    UNION {{[i \in 1..n |-> ScanGoal(c[i], n + 1 - i, n - i)] : c \in [1..n -> ScanSamples]} :
           n \in 0..MaxScanGoals}

InitScan ==
    /\ goals \in ScanCollections
    /\ now = ScanStart
    /\ nextId = Len(goals) + 1
    /\ showWelcome = FALSE
    /\ userCategories = <<ViewAreaA>>
    /\ areaOrder = <<ViewAreaA>>
    /\ archivedCategories = << >>
    /\ searchQuery = << >>
    /\ sortBy = "Newest"
    /\ activeSort = NoFilter
    /\ notifications = << >>
    /\ activeToast = Undefined
    /\ scanTimer = ScheduledScan(goals, showWelcome)
    /\ pendingNudges = << >>
    /\ InitSession("Ann")

\* a day passes; the toast timers (7 s) have fired by then
ScanTick ==
    /\ now < MaxScanTime
    /\ toastTimers = << >>
    /\ now' = now + 1
    /\ UNCHANGED <<startVars, storeVars, formVars, goals, nextId, showWelcome,
                   userCategories, archivedCategories,
                   areaOrder, viewVars, scanVars>>

NextScan ==
    \/ ScanTick
    \/ checkSystems
    \/ getFriendlyNudgeResolved
    \/ getFriendlyNudgeRejected
    \/ ClearAllNotifications
    \/ DismissToast
    \/ ToastTimeout
    \/ handleToggleComplete
    \/ handleDeleteGoal

SpecScan == InitScan /\ [][NextScan]_vars

----------------------------------------------------------------------------
(* Claims about the notification scan (specification SpecScan).            *)

\* the step is a run of checkSystems from the timer up to its await or end
ScanRuns == IsDefined(scanTimer) /\ ~IsDefined(scanTimer') /\ goals' = goals

\* the goals the pending scan will evaluate
ScanInput == IF IsDefined(scanTimer) THEN ValueOf(scanTimer) ELSE << >>

AlertIds(alerts) == {alerts[k].id : k \in 1..Len(alerts)}

\* what the claim asks of a goal for a deadline alert at time t
InAlertWindow(g, t) ==
    /\ g.completed = FALSE /\ g.archived = FALSE
    /\ g.deadline # Undefined
    /\ \E days \in 1..3 : ValueOf(g.deadline) = t + days

C15_Rule ==
    \A i \in 1..Len(ScanInput) :
        (<<"deadline", ScanInput[i].id>> \in AlertIds(deadlineAlerts(ScanInput, now)))
            <=> InAlertWindow(ScanInput[i], now)

C15_Step ==
    ScanRuns =>
        IF Len(pendingNudges') > Len(pendingNudges)
        THEN pendingNudges'[Len(pendingNudges')].newAlerts = deadlineAlerts(ScanInput, now)
        ELSE /\ AlertIds(deadlineAlerts(ScanInput, now)) \subseteq NotificationIds(notifications')
             /\ \A k \in 1..Len(notifications') :
                   notifications'[k].id \in NotificationIds(notifications)
                                             \cup AlertIds(deadlineAlerts(ScanInput, now))

\* C15: a scan emits the alert "deadline-" + goal id for a goal it evaluates if and
\* only if the goal is not completed, not archived, has a deadline and
\* 0 < deadline - now <= 3 days (exactly 3 days: yes; more, exactly now, over: no);
\* the run of the scan hands over exactly these alerts.
C15_DeadlineAlerts == [](C15_Rule) /\ [][C15_Step]_vars

\* a listed deadline alert of a goal whose deadline was exactly three days away
\* when the scan ran, beside a goal with a deadline that got no alert
C15_Witness ==
    /\ \E k \in 1..Len(notifications) : \E i \in 1..Len(goals) :
          /\ notifications[k].id = <<"deadline", goals[i].id>>
          /\ goals[i].deadline = Some(notifications[k].timestamp + 3)
    /\ \E i \in 1..Len(goals) :
          /\ IsDefined(goals[i].deadline) /\ ~goals[i].completed /\ ~goals[i].archived
          /\ <<"deadline", goals[i].id>> \notin NotificationIds(notifications)

IsOpen(g) == g.completed = FALSE /\ g.archived = FALSE

NudgeCount(list) == Cardinality({k \in 1..Len(list) : list[k].type = "nudge"})

C16_Step ==
    /\ ScanRuns =>
          /\ Len(pendingNudges') <= Len(pendingNudges) + 1
          /\ Len(pendingNudges') = Len(pendingNudges) + 1 =>
                \E i \in 1..Len(ScanInput) :
                   /\ pendingNudges'[Len(pendingNudges')].goal = ScanInput[i].id
                   /\ IsOpen(ScanInput[i])
                   /\ \A j \in 1..Len(ScanInput) :
                         IsOpen(ScanInput[j]) =>
                            ScanInput[i].lastInteractionAt <= ScanInput[j].lastInteractionAt
                   /\ now - ScanInput[i].lastInteractionAt > 4
          /\ NudgeCount(notifications') = NudgeCount(notifications)
    /\ NudgeCount(notifications') <= NudgeCount(notifications) + 1
    /\ \A k \in 1..Len(notifications') :
          (notifications'[k].type = "nudge"
             /\ notifications'[k].id \notin NotificationIds(notifications)) =>
                \E r \in 1..Len(pendingNudges) :
                   /\ notifications'[k].id = <<"nudge", pendingNudges[r].goal>>
                   /\ Len(pendingNudges') = Len(pendingNudges) - 1

\* C16: a scan emits at most one neglect nudge, only for the non-completed,
\* non-archived goal with the smallest lastInteractionAt, only when
\* now - lastInteractionAt > 4 days, with the id "nudge-" + that goal's id, however
\* many goals are neglected.
C16_SingleNudge == [][C16_Step]_vars

\* two open goals are both neglected and the list holds one nudge
C16_Witness ==
    /\ Len(goals) = 2
    /\ \A i \in 1..2 : IsOpen(goals[i]) /\ now - goals[i].lastInteractionAt > 4
    /\ NudgeCount(notifications) = 1
    /\ pendingNudges = << >> /\ ~IsDefined(scanTimer)

C17_NoDuplicates ==
    \A i \in 1..Len(notifications) : \A j \in 1..Len(notifications) :
        notifications[i].id = notifications[j].id => i = j

C17_Step ==
    /\ Len(notifications') > Len(notifications) =>
          /\ \A k \in 1..(Len(notifications') - Len(notifications)) :
                notifications'[k].id \notin NotificationIds(notifications)
          /\ SubSeq(notifications', Len(notifications') - Len(notifications) + 1,
                    Len(notifications')) = notifications
    /\ (activeToast' # activeToast /\ IsDefined(activeToast')) =>
          /\ ValueOf(activeToast').id \notin NotificationIds(notifications)
          /\ ValueOf(activeToast').id \in NotificationIds(notifications')

\* C17: the notification list never holds two notifications with the same id,
\* for any interleaving of scans, overlapping nudge requests included; a scan
\* whose alerts are all listed already adds no notification and shows no toast
\* (what is added was not listed, and a new toast is a notification just added).
C17_Dedup == [](C17_NoDuplicates) /\ [][C17_Step]_vars

\* the nudge of a goal is listed while a later run for the same goal still waits
\* for its advisory call
C17_Witness ==
    \E k \in 1..Len(notifications) : \E r \in 1..Len(pendingNudges) :
        /\ notifications[k].id = <<"nudge", pendingNudges[r].goal>>
        /\ pendingNudges[r].now > notifications[k].timestamp

\* C18: when a run's advisory call ends, failed or not, the deadline alerts the
\* run had computed are in the notification list: a failure only skips the nudge.
C18_Step ==
    Len(pendingNudges') < Len(pendingNudges) =>
        \E r \in 1..Len(pendingNudges) :
            /\ pendingNudges' = SubSeq(pendingNudges, 1, r - 1)
                                  \o SubSeq(pendingNudges, r + 1, Len(pendingNudges))
            /\ AlertIds(pendingNudges[r].newAlerts) \subseteq NotificationIds(notifications')

C18_FailureSkipsOnlyNudge == [][C18_Step]_vars

\* the goal with this id is in the collection and is completed or archived
ClosedNow(id) ==
    \E i \in 1..Len(goals) : goals[i].id = id /\ (goals[i].completed \/ goals[i].archived)

\* C19: a scan evaluates the collection as it is when the scan runs: a run of the
\* scan adds no notification, and prepares no nudge, for a goal that is
\* completed or archived at that time.
C19_Step ==
    ScanRuns =>
        /\ \A k \in 1..Len(notifications') :
              notifications'[k].id \notin NotificationIds(notifications) =>
                  ~ClosedNow(notifications'[k].id[2])
        /\ Len(pendingNudges') > Len(pendingNudges) =>
              ~ClosedNow(pendingNudges'[Len(pendingNudges')].goal)

C19_ScanSeesCurrentGoals == [][C19_Step]_vars

----------------------------------------------------------------------------
(* Claims about the stamping of lastInteractionAt (specification Spec).    *)

\* C20: every operation that changes an existing goal (field update, pin,
\* archive, complete, sub-task toggle, sub-task progress, category archive)
\* sets that goal's lastInteractionAt to the current time; a goal that does not
\* get the stamp is left as it was.
C20_Step ==
    Len(goals') = Len(goals) =>
        \A i \in 1..Len(goals) :
            \/ goals'[i] = goals[i]
            \/ (goals'[i].id = goals[i].id /\ goals'[i].lastInteractionAt = now)

C20_StampsInteraction == [][C20_Step]_vars

----------------------------------------------------------------------------
(* Claims about confirmation, creation and the category lists              *)
(* (specification Spec).                                                   *)

\* the steps the handlers take after confirm() returned true
ConfirmAccepted == handleDeleteGoalAnswered(TRUE) \/ handleArchiveCategoryAnswered(TRUE)

GoalDeleted == \E i \in 1..Len(goals) : ~HasGoal(goals', goals[i].id)

\* a goal goes from not archived to archived and its completed flag stays
GoalArchived ==
    \E i \in 1..Len(goals) : \E j \in 1..Len(goals') :
        /\ goals'[j].id = goals[i].id
        /\ ~goals[i].archived /\ goals'[j].archived
        /\ goals'[j].completed = goals[i].completed

\* a label joins archivedCategories, or leaves the active list of the main view
CategoryArchived ==
    \/ archivedCategories' # archivedCategories
    \/ /\ ~showWelcome
       /\ \E k \in 1..Len(userCategories) : ~Includes(userCategories', userCategories[k])

\* C21: goal deletion, goal archival and category archival are applied only after
\* the user confirmed; a step of one of the three handlers without an accepted
\* confirmation leaves goals, the category lists and areaOrder unchanged.
\* The code asks for no confirmation in handleToggleArchive.
C21_Step ==
    /\ (GoalDeleted \/ GoalArchived \/ CategoryArchived) => ConfirmAccepted
    /\ ((handleDeleteGoal \/ handleToggleArchive \/ handleArchiveCategory) /\ ~ConfirmAccepted)
          => UNCHANGED <<goals, userCategories, archivedCategories, areaOrder>>

C21_ConfirmedOnly == [][C21_Step]_vars

\* C22: a goal created through handleAddGoal starts not completed, not archived,
\* without completedAt, with createdAt = lastInteractionAt = now and an id no goal
\* of the collection has; afterwards no operation changes the id or createdAt of a
\* goal, and a goal leaves the collection only through a confirmed delete.
C22_DistinctIds ==
    \A i, j \in 1..Len(goals) : i # j => goals[i].id # goals[j].id

C22_Step ==
    /\ handleAddGoal =>
          /\ Len(goals') = Len(goals) + 1
          /\ Tail(goals') = goals
          /\ ~goals'[1].completed /\ ~goals'[1].archived
          /\ goals'[1].completedAt = Undefined
          /\ goals'[1].createdAt = now /\ goals'[1].lastInteractionAt = now
          /\ ~HasGoal(goals, goals'[1].id)
    /\ Len(goals') = Len(goals) =>
          \A i \in 1..Len(goals) :
              goals'[i].id = goals[i].id /\ goals'[i].createdAt = goals[i].createdAt
    /\ \A i \in 1..Len(goals) : \A j \in 1..Len(goals') :
          goals'[j].id = goals[i].id => goals'[j].createdAt = goals[i].createdAt
    /\ GoalDeleted => handleDeleteGoalAnswered(TRUE)

C28_RoundTrip ==
    \A i \in 1..Len(goals) :
        (Rendered(goals[i]) /\ ~goals[i].completed) =>
            LET back == CompleteToggled(CompleteToggled(goals[i], now), now)
            IN /\ back.completed = goals[i].completed
               /\ back.archived = goals[i].archived
               /\ back.completedAt = goals[i].completedAt

\* C29: after any sequence of add-category and archive-category operations no
\* label is in both userCategories and archivedCategories, and neither list holds
\* a label twice.  The code lets an archived label be added again.
C29_CategoryLists ==
    /\ \A k \in 1..Len(userCategories) : ~Includes(archivedCategories, userCategories[k])
    /\ NoDuplicates(userCategories)
    /\ NoDuplicates(archivedCategories)

----------------------------------------------------------------------------
(* Start-up and persistence (specification SpecStore): the page is loaded, *)
(* used, and loaded again.  The first render runs the effects in order:    *)
(* the mount effect reads the three items and sets state, then the two     *)
(* persistence effects write the state of that first render; the render    *)
(* that follows shows the state set by the mount effect and runs the       *)
(* effects whose dependencies changed.                                     *)

\* variant: the goals effect does not run again after the load
StoredGoalsAfterLoad_NoRerun(read, gs) == storedGoals

\* the goals item after the render that follows the mount effect: setGoals was
\* called with a new array if and only if the item was there
StoredGoalsAfterLoad(read, gs) ==
    IF IsDefined(read.goals) THEN Some(StringifyGoals(gs)) ELSE storedGoals

\* the page is loaded (again): first render with the initial state, mount effect,
\* persistence effects
StartApp ==
    /\ Mounted
    /\ pendingLoad' = Some([profile |-> storedProfile, goals |-> storedGoals,
                            areaOrder |-> storedAreaOrder])
    /\ userName' = ""
    /\ userCategories' = LifeAreaValues
    /\ archivedCategories' = << >>
    /\ showWelcome' = FALSE
    /\ goals' = << >>
    /\ areaOrder' = << >>
    /\ selectedCategories' = << >>
    /\ searchQuery' = << >> /\ sortBy' = "Newest" /\ activeSort' = NoFilter
    /\ notifications' = << >> /\ activeToast' = Undefined /\ pendingNudges' = << >>
    /\ toastTimers' = << >>
    /\ scanTimer' = ScheduledScan(goals', showWelcome')
    /\ formSubTasks' = << >> /\ isBreakingDown' = FALSE /\ breakdownCall' = Undefined
    /\ unhandledRejection' = FALSE
    /\ UNCHANGED <<now, nextId, nextTaskId>>
    /\ PersistGoals
    /\ PersistProfile

\* the render after the mount effect, and the effects it runs
MountRerender ==
    /\ IsDefined(pendingLoad)
    /\ LET read == ValueOf(pendingLoad) IN
          /\ IF IsDefined(read.profile)
             THEN /\ userName' = ValueOf(read.profile).name
                  /\ userCategories' = ValueOf(read.profile).categories
                  /\ archivedCategories' = ValueOf(read.profile).archivedCats
                  /\ UNCHANGED showWelcome
             ELSE /\ showWelcome' = TRUE
                  /\ UNCHANGED <<userName, userCategories, archivedCategories>>
          /\ goals' = IF IsDefined(read.goals) THEN LoadedGoals(ValueOf(read.goals), now)
                      ELSE goals
          /\ areaOrder' = IF IsDefined(read.areaOrder) THEN ValueOf(read.areaOrder)
                          ELSE areaOrder
          /\ storedGoals' = StoredGoalsAfterLoad(read, goals')
          /\ IF IsDefined(read.profile) \/ IsDefined(read.areaOrder)
             THEN PersistProfile
             ELSE UNCHANGED <<storedProfile, storedAreaOrder>>
    /\ scanTimer' = ScheduledScan(goals', showWelcome')
    /\ pendingLoad' = Undefined
    /\ UNCHANGED <<now, nextId, selectedCategories, viewVars, formVars,
                   notifications, activeToast, pendingNudges, toastTimers>>

\* the very first load, with nothing in localStorage: the effects of the first
\* render have run
InitStore ==
    /\ goals = << >>
    /\ now = 1
    /\ nextId = 1
    /\ showWelcome = FALSE
    /\ userCategories = LifeAreaValues
    /\ archivedCategories = << >>
    /\ areaOrder = << >>
    /\ searchQuery = << >>
    /\ sortBy = "Newest"
    /\ activeSort = NoFilter
    /\ notifications = << >>
    /\ activeToast = Undefined
    /\ scanTimer = ScheduledScan(goals, showWelcome)
    /\ pendingNudges = << >>
    /\ toastTimers = << >>
    /\ userName = ""
    /\ selectedCategories = << >>
    /\ pendingLoad = Some([profile |-> Undefined, goals |-> Undefined, areaOrder |-> Undefined])
    /\ storedGoals = Some(StringifyGoals(goals))
    /\ storedProfile = Some(ProfileBlob(userName, userCategories, archivedCategories))
    /\ storedAreaOrder = Some(areaOrder)
    /\ formSubTasks = << >>
    /\ isBreakingDown = FALSE
    /\ breakdownCall = Undefined
    /\ unhandledRejection = FALSE
    /\ nextTaskId = 1

NextStore ==
    \/ StartApp
    \/ MountRerender
    \/ Tick
    \/ toggleCategory
    \/ addCustomCategory
    \/ handleWelcomeComplete
    \/ handleAddNewCategory
    \/ handleAddGoal
    \/ handleToggleComplete
    \/ handleDeleteGoal
    \/ handleArchiveCategory

SpecStore == InitStore /\ [][NextStore]_vars

----------------------------------------------------------------------------
(* Claims about start-up and persistence (specification SpecStore).        *)

\* C23: whenever no effect is pending, the goals item holds the goal collection
\* in memory (and reading it back gives that collection); a start with a saved
\* non-empty collection reads the item before the first render's effect
\* overwrites it with the empty collection, and ends with the saved collection
\* in memory and in the item again.
C23_InStep ==
    Mounted =>
        /\ storedGoals = Some(StringifyGoals(goals))
        /\ LoadedGoals(ValueOf(storedGoals), now) = goals

C23_Step ==
    /\ StartApp => /\ ValueOf(pendingLoad').goals = storedGoals
                   /\ storedGoals = Some(StringifyGoals(goals))
    /\ (MountRerender /\ IsDefined(ValueOf(pendingLoad).goals)) =>
          /\ storedGoals' = ValueOf(pendingLoad).goals
          /\ StringifyGoals(goals') = ValueOf(ValueOf(pendingLoad).goals)

C25_Selected == NoDuplicates(selectedCategories)

C25_Step ==
    (Mounted /\ Mounted' /\ showWelcome /\ ~showWelcome') =>
        /\ handleWelcomeComplete
        /\ userName' # "" /\ \E name \in NameInputs : userName' = Trim(name)
        /\ Len(selectedCategories) > 0
        /\ userCategories' = selectedCategories
        /\ areaOrder' = selectedCategories
        /\ NoDuplicates(userCategories')

C25_OnboardingValid == [](C25_Selected) /\ [][C25_Step]_vars

\* onboarding done with a typed custom category selected before a built-in one
C25_Witness ==
    /\ Mounted /\ ~showWelcome
    /\ userName = "Ann"
    /\ userCategories = <<"Side project", "Health & Wellness">>
    /\ areaOrder = userCategories
    /\ goals = << >> /\ archivedCategories = << >>

\* C24: the profile is created once, during onboarding: no profile item is
\* written before handleWelcomeComplete ran, so a start before onboarding was
\* completed shows the welcome screen again and the main view is never shown
\* with an empty user name.  (handleFinish only passes a non-empty name; the
\* profile effect of the first render writes an item with the empty name.)
C24_ProfileOnlyByOnboarding ==
    (Mounted /\ ~showWelcome) => userName # ""

----------------------------------------------------------------------------
(* The sub-task list of the goal form and the AI breakdown (specification  *)
(* SpecForm).  The form is open and has a title; handleAIGenerateSteps is   *)
(* split at its await: the call keeps the subTasks of the render in which   *)
(* the button was pressed, and the response the service gives to it.       *)

\* a step of the list: handleAddSubTask's newTask has text '' and target 0
FormStep(id, text, target) ==
    [id |-> id, text |-> text, completed |-> FALSE, currentProgress |-> 0,
     targetProgress |-> target, deleted |-> FALSE]

FormTexts == {"", "walk"}
FormTargets == {2}

\* what generateContent does: it fails (network), or answers with a text that is
\* a JSON array of steps, that is empty, or that JSON.parse rejects
BreakdownItems == {"plan"}
BreakdownLists ==
    UNION {[1..n -> BreakdownItems] : n \in 0..MaxBreakdown}
Responses ==
    {[kind |-> "network error", items |-> << >>],
     [kind |-> "unparsable", items |-> << >>],
     [kind |-> "empty text", items |-> << >>]}
    \cup {[kind |-> "json", items |-> items] : items \in BreakdownLists}

\* getTaskBreakdown: the await of generateContent stands before the try, so its
\* failure rejects the promise; a text JSON.parse rejects gives [], an empty text
\* is read as '[]'
getTaskBreakdown(response) ==
    IF response.kind = "network error" THEN [rejected |-> TRUE, value |-> << >>]
    ELSE IF response.kind = "json" THEN [rejected |-> FALSE, value |-> response.items]
    ELSE [rejected |-> FALSE, value |-> << >>]

\* breakdown.map(item => ({ id: crypto.randomUUID(), text: item.text, ...,
\* targetProgress: 1 })), the ids counted from `first`
GeneratedSteps(breakdown, first) ==
    [k \in 1..Len(breakdown) |-> FormStep(first + k - 1, breakdown[k], 1)]

\* updated.splice(index + 1, 0, newTask)
InsertAfter(list, index, task) ==
    SubSeq(list, 1, index + 1) \o <<task>> \o SubSeq(list, index + 2, Len(list))

\* handleAddSubTask(): at the end; handleAddSubTask(idx): after the row idx
handleAddSubTask ==
    /\ Len(formSubTasks) < MaxFormSteps
    /\ nextTaskId <= MaxFormIds
    /\ \E index \in 0..Len(formSubTasks) :
          formSubTasks' = IF index = Len(formSubTasks)
                          THEN Append(formSubTasks, FormStep(nextTaskId, "", 0))
                          ELSE InsertAfter(formSubTasks, index, FormStep(nextTaskId, "", 0))
    /\ nextTaskId' = nextTaskId + 1
    /\ UNCHANGED <<repoVars, viewVars, scanVars, startVars, storeVars,
                   isBreakingDown, breakdownCall, unhandledRejection>>

handleRemoveSubTask ==
    /\ \E k \in 1..Len(formSubTasks) :
          LET keep(task) == task.id # formSubTasks[k].id
          IN formSubTasks' = SelectSeq(formSubTasks, keep)
    /\ UNCHANGED <<repoVars, viewVars, scanVars, startVars, storeVars,
                   isBreakingDown, breakdownCall, unhandledRejection, nextTaskId>>

\* the text input and the targetProgress input of a row
handleSubTaskChange ==
    /\ \E k \in 1..Len(formSubTasks) :
          \/ \E text \in FormTexts :
                formSubTasks' = [formSubTasks EXCEPT ![k].text = text]
          \/ \E target \in FormTargets :
                formSubTasks' = [formSubTasks EXCEPT ![k].targetProgress = target]
    /\ UNCHANGED <<repoVars, viewVars, scanVars, startVars, storeVars,
                   isBreakingDown, breakdownCall, unhandledRejection, nextTaskId>>

\* the button "AI breakdown" (disabled while isBreakingDown), up to the await
handleAIGenerateSteps ==
    /\ ~isBreakingDown
    /\ ~IsDefined(breakdownCall)
    /\ isBreakingDown' = TRUE
    /\ \E response \in Responses :
          breakdownCall' = Some([subTasks |-> formSubTasks, response |-> response])
    /\ UNCHANGED <<repoVars, viewVars, scanVars, startVars, storeVars,
                   formSubTasks, unhandledRejection, nextTaskId>>

\* the await returns: setSubTasks([...subTasks, ...breakdown.map(...)]) with the
\* subTasks of the call, then finally
getTaskBreakdownResolved ==
    /\ IsDefined(breakdownCall)
    /\ LET call == ValueOf(breakdownCall)
           breakdown == getTaskBreakdown(call.response)
       IN /\ ~breakdown.rejected
          /\ nextTaskId + Len(breakdown.value) <= MaxFormIds + 1
          /\ formSubTasks' = call.subTasks \o GeneratedSteps(breakdown.value, nextTaskId)
          /\ nextTaskId' = nextTaskId + Len(breakdown.value)
    /\ isBreakingDown' = FALSE
    /\ breakdownCall' = Undefined
    /\ UNCHANGED <<repoVars, viewVars, scanVars, startVars, storeVars, unhandledRejection>>

\* the await throws: finally runs, there is no catch
getTaskBreakdownRejected ==
    /\ IsDefined(breakdownCall)
    /\ getTaskBreakdown(ValueOf(breakdownCall).response).rejected
    /\ isBreakingDown' = FALSE
    /\ breakdownCall' = Undefined
    /\ unhandledRejection' = TRUE
    /\ UNCHANGED <<repoVars, viewVars, scanVars, startVars, storeVars,
                   formSubTasks, nextTaskId>>

\* the form opened on a new goal, or on a goal that has one step
InitForm ==
    /\ goals = << >>
    /\ now = 1
    /\ nextId = 1
    /\ showWelcome = FALSE
    /\ userCategories = <<ViewAreaA>>
    /\ areaOrder = <<ViewAreaA>>
    /\ archivedCategories = << >>
    /\ searchQuery = << >>
    /\ sortBy = "Newest"
    /\ activeSort = NoFilter
    /\ notifications = << >>
    /\ activeToast = Undefined
    /\ scanTimer = ScheduledScan(goals, showWelcome)
    /\ pendingNudges = << >>
    /\ toastTimers = << >>
    /\ userName = "Ann"
    /\ selectedCategories = << >>
    /\ pendingLoad = Undefined
    /\ storedGoals = Some(StringifyGoals(goals))
    /\ storedProfile = Some(ProfileBlob(userName, userCategories, archivedCategories))
    /\ storedAreaOrder = Some(areaOrder)
    /\ formSubTasks \in {<< >>, <<FormStep(1, "walk", 2)>>}
    /\ isBreakingDown = FALSE
    /\ breakdownCall = Undefined
    /\ unhandledRejection = FALSE
    /\ nextTaskId = 2

NextForm ==
    \/ handleAddSubTask
    \/ handleRemoveSubTask
    \/ handleSubTaskChange
    \/ handleAIGenerateSteps
    \/ getTaskBreakdownResolved
    \/ getTaskBreakdownRejected

SpecForm == InitForm /\ [][NextForm]_vars

----------------------------------------------------------------------------
(* Claims about the AI breakdown in the goal form (specification SpecForm). *)

\* a step in which the pending call of getTaskBreakdown settles
BreakdownSettles == IsDefined(breakdownCall) /\ ~IsDefined(breakdownCall')
PendingResponse == ValueOf(breakdownCall).response

\* C26: a failed task-breakdown request (network error or unparsable response)
\* is never propagated as an error: getTaskBreakdown yields the empty sequence,
\* the sub-task list of the form is then unchanged and isBreakingDown is false
\* again.  In the code a network error rejects the promise.
C26_Step ==
    (BreakdownSettles /\ PendingResponse.kind \in {"network error", "unparsable"}) =>
        /\ getTaskBreakdown(PendingResponse) = [rejected |-> FALSE, value |-> << >>]
        /\ ~unhandledRejection'
        /\ formSubTasks' = formSubTasks
        /\ ~isBreakingDown'

C26_FailureIsEmpty == [][C26_Step]_vars

\* C27: sub-task edits made while a breakdown request is in flight are kept when
\* the response arrives: the new list is the list at arrival time followed by
\* the generated steps.  The code appends to the list of the render in which
\* the button was pressed.
C27_Step ==
    (BreakdownSettles /\ PendingResponse.kind = "json") =>
        formSubTasks' = formSubTasks \o GeneratedSteps(PendingResponse.items, nextTaskId)

C27_EditsKept == [][C27_Step]_vars

\* ---- toast dismissal timers (specification SpecScan) ----

\* a scan showed a toast in this step: it started a dismissal timer
ToastShown == Len(toastTimers') > Len(toastTimers)

\* a dismissal timer fired in this step
TimerFired == toastTimers # << >> /\ toastTimers' = Tail(toastTimers)

\* the timer started with the toast on display is the newest one
OwnTimer == Len(toastTimers)

C30_Pending ==
    IsDefined(activeToast) =>
        /\ toastTimers # << >>
        /\ toastTimers[OwnTimer] = activeToast[1].id

C30_Step ==
    /\ ToastShown =>
          /\ IsDefined(activeToast')
          /\ \E i \in 1..Len(notifications') : notifications'[i] = activeToast'[1]
          /\ \A i \in 1..Len(notifications) : notifications[i].id # activeToast'[1].id
    /\ (TimerFired /\ IsDefined(activeToast)) => OwnTimer = 1
    /\ (IsDefined(activeToast) /\ ~IsDefined(activeToast')) =>
          \/ TimerFired
          \/ UNCHANGED toastTimers

\* C30: a toast shown by a scan is a notification that scan added; it is on
\* display until the user dismisses it or the 7000 ms timer started with it
\* fires, and a timer started with an earlier toast never clears it
C30_ToastFullDelay == [](C30_Pending) /\ [][C30_Step]_vars

====
